---- MODULE Spec2Model ----
(***************************************************************************)
(* A model of scripts/vibe_benchmark.py: the persistent response and       *)
(* battle caches, the gated response phase, the gated battle phase and     *)
(* the process life cycle (start, normal end, operator interrupt, start    *)
(* again on the files the previous process left).                          *)
(*                                                                         *)
(* Texts are TLC strings, so that the concatenations the code performs     *)
(* (cache keys, the combined prompt text that is hashed) are computed and  *)
(* not assumed injective.                                                  *)
(***************************************************************************)
EXTENDS Integers, Sequences, FiniteSets, TLC

(***************************************************************************)
(* Model sizes.  The code's gate has 200 permits and the caches persist    *)
(* every 50 (responses) and 20 (battles) writes; the model keeps the same  *)
(* code with smaller numbers so that the gate fills and a batch completes  *)
(* within a handful of tasks.                                              *)
(***************************************************************************)
GateCapacity == 2

ResponseBatch == 2

BattleBatch == 2

(***************************************************************************)
(* Dictionaries (Python dict with string keys) are functions on a finite   *)
(* set of strings.                                                         *)
(***************************************************************************)
EmptyDict == [k \in {} |-> ""]

DictPut(d, k, v) == [x \in (DOMAIN d) \cup {k} |-> IF x = k THEN v ELSE d[x]]

\* dict.get(k) is a sequence of at most one value: << >> is None.
None == << >>

DictGet(d, k) == IF k \in DOMAIN d THEN <<d[k]>> ELSE None

(***************************************************************************)
(* hashlib.sha256(text.encode('utf-8')).hexdigest()[:12].  The digest is   *)
(* modelled as collision free: two texts have the same fingerprint exactly *)
(* when they are the same text.                                            *)
(***************************************************************************)
Sha256_12(text) == "sha256:" \o text

ResponseHash(system_prompt) == Sha256_12(system_prompt)

CombinedHash(system_prompt, judge_prompt) == Sha256_12(system_prompt \o judge_prompt)

(***************************************************************************)
(* The persisted cache file: absent, or the JSON document                  *)
(* {prompt_hash | prompts_hash, entries}.                                  *)
(***************************************************************************)
NoFile == [exists |-> FALSE, hash |-> "", entries |-> EmptyDict]

FileOf(h, entries) == [exists |-> TRUE, hash |-> h, entries |-> entries]

(***************************************************************************)
(* String order on the model identifiers (Python's sorted on str compares  *)
(* code points): the rank of each identifier the model uses.               *)
(***************************************************************************)
ModelIds == {"ma", "mb", "mc"}

StrRank(s) == CASE s = "ma" -> 1 [] s = "mb" -> 2 [] s = "mc" -> 3 [] s = "md" -> 4

\* the mutant of Sorted2: the pair kept in the caller's order
Sorted2Unsorted(a, b) == <<a, b>>

\* sorted([model_a, model_b])
Sorted2(a, b) == IF StrRank(a) <= StrRank(b) THEN <<a, b>> ELSE <<b, a>>

\* ResponseCache._make_key
ResponseKey(model_id, question) == model_id \o "::" \o question

\* the mutant of BattleKey: the judge left out of the key
BattleKeyNoJudge(judge_id, model_a, model_b, category) ==
    LET m == Sorted2(model_a, model_b)
    IN  m[1] \o "::" \o m[2] \o "::" \o category

\* BattleCache._make_key
BattleKey(judge_id, model_a, model_b, category) ==
    LET m == Sorted2(model_a, model_b)
    IN  judge_id \o "::" \o m[1] \o "::" \o m[2] \o "::" \o category

(***************************************************************************)
(* ResponseCache.  An object is [cache, dirty, unsaved]: the dict, _dirty  *)
(* and _unsaved_count (read with default 0 before its first assignment).   *)
(* An operation that may write the file yields the object and the file     *)
(* (BattleCache: and whether it wrote the file).                           *)
(* The entry's cached_at timestamp is written and never read; it is left   *)
(* out.                                                                    *)
(***************************************************************************)
NewCache == [cache |-> EmptyDict, dirty |-> FALSE, unsaved |-> 0]

\* the mutant of ResponseCache_load: the stored fingerprint is not compared
ResponseCache_loadNoCheck(file, system_prompt) ==
    IF file.exists THEN [NewCache EXCEPT !.cache = file.entries] ELSE NewCache

\* ResponseCache.__init__ and _load
ResponseCache_load(file, system_prompt) ==
    IF file.exists
    THEN IF file.hash = ResponseHash(system_prompt)
         THEN [NewCache EXCEPT !.cache = file.entries]
         ELSE NewCache
    ELSE NewCache

\* ResponseCache._save
ResponseCache_save(obj, system_prompt) ==
    [obj  |-> [obj EXCEPT !.dirty = FALSE, !.unsaved = 0],
     file |-> FileOf(ResponseHash(system_prompt), obj.cache)]

\* ResponseCache.get
ResponseCache_get(obj, model_id, question) ==
    DictGet(obj.cache, ResponseKey(model_id, question))

\* the mutant of ResponseCache_assign: an existing entry is kept (setdefault)
ResponseCache_assignIfAbsent(cache, key, entry) ==
    IF key \in DOMAIN cache THEN cache ELSE DictPut(cache, key, entry)

\* self.cache[key] = {...} of ResponseCache.set
ResponseCache_assign(cache, key, entry) == DictPut(cache, key, entry)

\* the mutant of ResponseCache_set: the reply is not stored
ResponseCache_setNothing(obj, file, system_prompt, model_id, question, entry) ==
    [obj |-> obj, file |-> file]

\* the mutant of ResponseCache_set: the periodic save one write late
ResponseCache_setLate(obj, file, system_prompt, model_id, question, entry) ==
    LET written == [cache   |-> ResponseCache_assign(obj.cache,
                                                     ResponseKey(model_id, question), entry),
                    dirty   |-> TRUE,
                    unsaved |-> obj.unsaved + 1]
    IN  IF written.unsaved > ResponseBatch
        THEN ResponseCache_save(written, system_prompt)
        ELSE [obj |-> written, file |-> file]

\* ResponseCache.set, its periodic _save included
ResponseCache_set(obj, file, system_prompt, model_id, question, entry) ==
    LET written == [cache   |-> ResponseCache_assign(obj.cache,
                                                     ResponseKey(model_id, question), entry),
                    dirty   |-> TRUE,
                    unsaved |-> obj.unsaved + 1]
    IN  IF written.unsaved >= ResponseBatch
        THEN ResponseCache_save(written, system_prompt)
        ELSE [obj |-> written, file |-> file]

\* the mutant of ResponseCache_save_if_dirty: the final flush forgotten
ResponseCache_save_if_dirtyNever(obj, file, system_prompt) ==
    [obj |-> obj, file |-> file]

\* ResponseCache.save_if_dirty
ResponseCache_save_if_dirty(obj, file, system_prompt) ==
    IF obj.dirty THEN ResponseCache_save(obj, system_prompt)
                 ELSE [obj |-> obj, file |-> file]

(***************************************************************************)
(* BattleCache: the same life cycle, keyed by (judge, sorted pair,         *)
(* category), fingerprinted by the persona text followed by the rubric.    *)
(***************************************************************************)
\* BattleCache.__init__ and _load
BattleCache_load(file, system_prompt, judge_prompt) ==
    IF file.exists
    THEN IF file.hash = CombinedHash(system_prompt, judge_prompt)
         THEN [NewCache EXCEPT !.cache = file.entries]
         ELSE NewCache
    ELSE NewCache

\* BattleCache._save
BattleCache_save(obj, system_prompt, judge_prompt) ==
    [obj   |-> [obj EXCEPT !.dirty = FALSE, !.unsaved = 0],
     file  |-> FileOf(CombinedHash(system_prompt, judge_prompt), obj.cache),
     saved |-> TRUE]

\* the mutant of BattleCache_get: every lookup misses
BattleCache_getMiss(obj, judge_id, model_a, model_b, category) == None

\* BattleCache.get
BattleCache_get(obj, judge_id, model_a, model_b, category) ==
    DictGet(obj.cache, BattleKey(judge_id, model_a, model_b, category))

\* self.cache[key] = winner of BattleCache.set
BattleCache_assign(cache, key, winner) == DictPut(cache, key, winner)

\* the mutant of BattleCache_set: the verdict is not stored
BattleCache_setNothing(obj, file, system_prompt, judge_prompt, judge_id, model_a, model_b, category, winner) ==
    [obj |-> obj, file |-> file, saved |-> FALSE]

\* BattleCache.set, its periodic _save included
BattleCache_set(obj, file, system_prompt, judge_prompt, judge_id, model_a, model_b, category, winner) ==
    LET written == [cache   |-> BattleCache_assign(obj.cache,
                                        BattleKey(judge_id, model_a, model_b, category),
                                        winner),
                    dirty   |-> TRUE,
                    unsaved |-> obj.unsaved + 1]
    IN  IF written.unsaved >= BattleBatch
        THEN BattleCache_save(written, system_prompt, judge_prompt)
        ELSE [obj |-> written, file |-> file, saved |-> FALSE]

\* the mutant of BattleCache_save_if_dirty: the final flush forgotten
BattleCache_save_if_dirtyNever(obj, file, system_prompt, judge_prompt) ==
    [obj |-> obj, file |-> file, saved |-> FALSE]

\* BattleCache.save_if_dirty
BattleCache_save_if_dirty(obj, file, system_prompt, judge_prompt) ==
    IF obj.dirty THEN BattleCache_save(obj, system_prompt, judge_prompt)
                 ELSE [obj |-> obj, file |-> file, saved |-> FALSE]

(***************************************************************************)
(* The network.  query_model_async returns (text, elapsed, usage): the     *)
(* reply of the endpoint, or the sentinel once every credential failed.    *)
(* What the endpoint answers is the environment's choice.                  *)
(***************************************************************************)
Sentinel == [response |-> "Error: All keys failed", elapsed |-> 0, usage |-> {}]

Text40 == "0123456789012345678901234567890123456789"

\* a reply longer than the 160 characters of the length heuristic
LongText == Text40 \o Text40 \o Text40 \o Text40 \o "!"

SendOutcomes ==
    { [response |-> "sup", elapsed |-> 1, usage |-> {<<"completion_tokens", 1>>}],
      [response |-> LongText, elapsed |-> 2, usage |-> {<<"completion_tokens", 40>>}],
      Sentinel }

(***************************************************************************)
(* State.                                                                  *)
(*   SYSTEM_PROMPT, JUDGE_BATTLE_PROMPT, MODELS, TEST_QUESTIONS            *)
(*       the module globals of the running process                         *)
(*   response_file, battle_file     the two persisted cache files          *)
(*   response_cache, battle_cache   the two cache objects                  *)
(*   pc          "off" (no process), "phase1", "phase2", "done"; in        *)
(*               SpecStartup also "no_keys" and "unknown_category", the    *)
(*               two early returns                                         *)
(*   semaphore   [value, waiters]: asyncio.Semaphore, waiters in FIFO      *)
(*   tasks       phase 1 tasks: [model, category, question, pc, data,      *)
(*               cached]; pc is "new", "waiting", "inflight" or "done"     *)
(*   results     model id -> [responses, total_time]                       *)
(*   battle_tasks  phase 2 tasks: [judge, model_a, model_b, category, pc,  *)
(*               winner, cached]                                           *)
(*   results_battles, battle_stats  what phase 2 hands to the rating fold  *)
(*   elo_ratings, category_elos   the rating tables of phase 3, in         *)
(*               hundredths of a rating point                              *)
(*   str_hash    hash() of this process on the texts it is applied to      *)
(*   keys        key_manager.keys: the KeyStates [key, failure_count]      *)
(*   requests    the calls of query_model_async of SpecKeys (below)        *)
(*   instance, lock, threads, ops_left   the threads of SpecThreads (below) *)
(*   lin        the cache of SpecThreads as the sets applied one by one    *)
(*              in the order of their assignments would leave it           *)
(* History (not read by any action's guard):                               *)
(*   send_calls   response key -> query_model_async calls of this process  *)
(*   judge_calls  battle key -> judge calls of this process                *)
(*   prev         whether the previous process ended normally under the    *)
(*                persona of this one, and the response entries it left    *)
(*   set_during   the keys written by set in each phase of this process    *)
(*   verdict_by   battle key -> the model the cached verdict was given to  *)
(*   persisted_under  the persona and rubric texts of the process that     *)
(*                wrote the battle file                                    *)
(*   logging, completed   when logging is set (it never changes), the      *)
(*                indices of the battle tasks of this process in the order *)
(*                in which they returned, and on each task the judge reply *)
(*                it was given                                             *)
(*   fallbacks    the verdicts line 700 gave in this process (now) and in  *)
(*                the processes before it (before), by hashed text         *)
(***************************************************************************)
VARIABLES SYSTEM_PROMPT, JUDGE_BATTLE_PROMPT, MODELS, TEST_QUESTIONS,
          response_file, battle_file, response_cache, battle_cache,
          pc, semaphore, tasks, results, battle_tasks, results_battles,
          battle_stats, send_calls, judge_calls, prev, set_during, verdict_by,
          persisted_under, instance, lock, threads, ops_left, lin,
          keys, requests, elo_ratings, category_elos, logging, completed,
          str_hash, fallbacks

config   == <<SYSTEM_PROMPT, JUDGE_BATTLE_PROMPT, MODELS, TEST_QUESTIONS>>
files    == <<response_file, battle_file>>
caches   == <<response_cache, battle_cache>>
phase2   == <<battle_tasks, results_battles, battle_stats>>
history  == <<send_calls, judge_calls, prev, set_during, verdict_by, persisted_under>>
threading == <<instance, lock, threads, ops_left, lin>>
pool     == <<keys, requests>>
phase3   == <<elo_ratings, category_elos>>
observed == <<logging, completed>>
hashing  == <<str_hash, fallbacks>>
vars     == <<config, files, caches, pc, semaphore, tasks, results, phase2, history,
             threading, pool, phase3, observed, hashing>>

NoData == [category |-> "", question |-> "", response |-> "", time |-> 0, usage |-> {}]

Count(d, k) == IF k \in DOMAIN d THEN d[k] ELSE 0

Bump(d, k) == DictPut(d, k, Count(d, k) + 1)

(***************************************************************************)
(* Before the first process: no file, no process.                          *)
(***************************************************************************)
InitRun(at, log) ==
    /\ SYSTEM_PROMPT = ""
    /\ JUDGE_BATTLE_PROMPT = ""
    /\ MODELS = << >>
    /\ TEST_QUESTIONS = << >>
    /\ response_file = NoFile
    /\ battle_file = NoFile
    /\ response_cache = NewCache
    /\ battle_cache = NewCache
    /\ pc = at
    /\ semaphore = [value |-> GateCapacity, waiters |-> << >>]
    /\ tasks = << >>
    /\ results = EmptyDict
    /\ battle_tasks = << >>
    /\ results_battles = << >>
    /\ battle_stats = EmptyDict
    /\ send_calls = EmptyDict
    /\ judge_calls = EmptyDict
    /\ prev = [unchanged |-> FALSE, entries |-> EmptyDict]
    /\ set_during = [responses |-> {}, battles |-> {}]
    /\ verdict_by = EmptyDict
    /\ persisted_under = <<"", "">>
    /\ instance = ""
    /\ lock = 0
    /\ threads = << >>
    /\ ops_left = 0
    /\ lin = EmptyDict
    /\ keys = << >>
    /\ requests = << >>
    /\ elo_ratings = EmptyDict
    /\ category_elos = EmptyDict
    /\ logging = log
    /\ completed = << >>
    /\ str_hash = EmptyDict
    /\ fallbacks = [now |-> EmptyDict, before |-> EmptyDict]

Init == InitRun("off", FALSE)

\* the same, with the log of replies and of the order of return kept
InitLogged == InitRun("off", TRUE)

(***************************************************************************)
(* A process starts: the module is imported (the caches load their files   *)
(* under the prompts of this version of the script), run_benchmark builds  *)
(* the phase 1 task list, one task per model and question, models outer,   *)
(* and hands it to asyncio.gather.                                         *)
(***************************************************************************)
Phase1Tasks(models, questions) ==
    [i \in 1..(Len(models) * Len(questions)) |->
        [model    |-> models[((i - 1) \div Len(questions)) + 1],
         category |-> questions[((i - 1) % Len(questions)) + 1].category,
         question |-> questions[((i - 1) % Len(questions)) + 1].question,
         pc       |-> "new",
         data     |-> NoData,
         cached   |-> FALSE]]

StartProcess(cfg) ==
    /\ pc \in {"off", "done", "no_keys", "unknown_category"}
    /\ SYSTEM_PROMPT' = cfg.system_prompt
    /\ JUDGE_BATTLE_PROMPT' = cfg.judge_prompt
    /\ MODELS' = cfg.models
    /\ TEST_QUESTIONS' = cfg.questions
    /\ response_cache' = ResponseCache_load(response_file, cfg.system_prompt)
    /\ battle_cache' = BattleCache_load(battle_file, cfg.system_prompt, cfg.judge_prompt)
    /\ pc' = "phase1"
    /\ semaphore' = [value |-> GateCapacity, waiters |-> << >>]
    /\ tasks' = Phase1Tasks(cfg.models, cfg.questions)
    /\ results' = [m \in {cfg.models[i] : i \in 1..Len(cfg.models)} |->
                      [responses |-> << >>, total_time |-> 0]]
    /\ battle_tasks' = << >>
    /\ results_battles' = << >>
    /\ battle_stats' = EmptyDict
    /\ send_calls' = EmptyDict
    /\ judge_calls' = EmptyDict
    /\ prev' = LET unchanged == pc = "done" /\ SYSTEM_PROMPT = cfg.system_prompt
                IN  [unchanged |-> unchanged,
                     entries   |-> IF unchanged THEN response_file.entries ELSE EmptyDict]
    /\ set_during' = [responses |-> {}, battles |-> {}]
    /\ verdict_by' = [k \in (DOMAIN verdict_by) \cap (DOMAIN battle_file.entries) |->
                          verdict_by[k]]
    /\ UNCHANGED <<files, persisted_under>>
    /\ UNCHANGED <<threading, pool, hashing>>
    /\ elo_ratings' = EmptyDict
    /\ category_elos' = EmptyDict
    /\ completed' = << >>
    /\ UNCHANGED logging

(***************************************************************************)
(* asyncio.Semaphore.  acquire returns at once when a permit is free and   *)
(* nobody waits; otherwise the task queues and is woken in FIFO order.     *)
(***************************************************************************)
\* the mutant of Semaphore_free: the gate lets every task through
Semaphore_freeAlways(sem) == TRUE

\* Semaphore.locked() is false
Semaphore_free(sem) == sem.value > 0

Semaphore_acquire(sem) == [sem EXCEPT !.value = @ - 1]

\* the mutant of Semaphore_release: the permit is not given back
Semaphore_releaseNothing(sem) == sem

Semaphore_release(sem) == [sem EXCEPT !.value = @ + 1]

(***************************************************************************)
(* process_question, first part: with the permit, look the key up; a hit   *)
(* returns (and gives the permit back), a miss sends the request and       *)
(* suspends with the permit held.                                          *)
(***************************************************************************)
ProcessQuestion_lookup(i, sem) ==
    LET t      == tasks[i]
        cached == ResponseCache_get(response_cache, t.model, t.question)
    IN  IF cached # None
        THEN /\ tasks' = [tasks EXCEPT ![i].pc = "done",
                                       ![i].cached = TRUE,
                                       ![i].data = [category |-> t.category,
                                                    question |-> t.question,
                                                    response |-> cached[1].response,
                                                    time     |-> cached[1].elapsed,
                                                    usage    |-> cached[1].usage]]
             /\ semaphore' = Semaphore_release(Semaphore_acquire(sem))
             /\ UNCHANGED send_calls
        ELSE /\ tasks' = [tasks EXCEPT ![i].pc = "inflight"]
             /\ semaphore' = Semaphore_acquire(sem)
             /\ send_calls' = Bump(send_calls, ResponseKey(t.model, t.question))

\* gather starts the tasks in list order; each runs to its first suspension
StartResponse(i) ==
    /\ pc = "phase1"
    /\ tasks[i].pc = "new"
    /\ \A j \in 1..(i - 1) : tasks[j].pc # "new"
    /\ IF Semaphore_free(semaphore) /\ semaphore.waiters = << >>
       THEN ProcessQuestion_lookup(i, semaphore)
       ELSE /\ tasks' = [tasks EXCEPT ![i].pc = "waiting"]
            /\ semaphore' = [semaphore EXCEPT !.waiters = Append(@, i)]
            /\ UNCHANGED send_calls
    /\ UNCHANGED <<config, files, caches, pc, results, phase2,
                   judge_calls, prev, set_during, verdict_by, persisted_under>>
    /\ UNCHANGED <<threading, pool, hashing>>
    /\ UNCHANGED <<phase3, observed>>

\* a released permit goes to the first waiter
WakeResponse(i) ==
    /\ pc = "phase1"
    /\ semaphore.waiters # << >>
    /\ Head(semaphore.waiters) = i
    /\ Semaphore_free(semaphore)
    /\ ProcessQuestion_lookup(i, [semaphore EXCEPT !.waiters = Tail(@)])
    /\ UNCHANGED <<config, files, caches, pc, results, phase2,
                   judge_calls, prev, set_during, verdict_by, persisted_under>>
    /\ UNCHANGED <<threading, pool, hashing>>
    /\ UNCHANGED <<phase3, observed>>

(***************************************************************************)
(* process_question, second part: the request returned; the reply is       *)
(* stored with set (which may persist the batch) and the permit is given   *)
(* back.                                                                   *)
(***************************************************************************)
ResponseReply(i, out) ==
    /\ pc = "phase1"
    /\ tasks[i].pc = "inflight"
    /\ LET t == tasks[i]
           w == ResponseCache_set(response_cache, response_file, SYSTEM_PROMPT,
                                  t.model, t.question,
                                  [response |-> out.response,
                                   elapsed  |-> out.elapsed,
                                   usage    |-> out.usage])
       IN  /\ response_cache' = w.obj
           /\ response_file' = w.file
           /\ tasks' = [tasks EXCEPT ![i].pc = "done",
                                     ![i].data = [category |-> t.category,
                                                  question |-> t.question,
                                                  response |-> out.response,
                                                  time     |-> out.elapsed,
                                                  usage    |-> out.usage]]
           /\ set_during' = [set_during EXCEPT
                                 !.responses = @ \cup {ResponseKey(t.model, t.question)}]
    /\ semaphore' = Semaphore_release(semaphore)
    /\ UNCHANGED <<config, battle_file, battle_cache, pc, results, phase2,
                   send_calls, judge_calls, prev, verdict_by, persisted_under>>
    /\ UNCHANGED <<threading, pool, hashing>>
    /\ UNCHANGED <<phase3, observed>>

(***************************************************************************)
(* Between the phases (no suspension point from the return of gather to    *)
(* the next gather): the results are aggregated in task order, the         *)
(* response cache is flushed, the battle task list is built.               *)
(***************************************************************************)
RECURSIVE SumTime(_)
SumTime(seq) == IF seq = << >> THEN 0 ELSE Head(seq).time + SumTime(Tail(seq))

ResponsesOf(ts, model_id) ==
    LET mine == SelectSeq(ts, LAMBDA t : t.model = model_id)
    IN  [k \in 1..Len(mine) |-> mine[k].data]

\* itertools.combinations(model_ids, 2)
RECURSIVE Combinations2(_)
Combinations2(ids) ==
    IF Len(ids) < 2 THEN << >>
    ELSE [k \in 1..(Len(ids) - 1) |-> <<ids[1], ids[k + 1]>>] \o Combinations2(Tail(ids))

\* sorted(list(set(...))) for the category and question texts the model uses
TextRank(s) ==
    CASE s = "flirty" -> 1 [] s = "greetings" -> 2
      [] s = "hey" -> 3 [] s = "yo" -> 4

RECURSIVE SortedList(_)
SortedList(S) ==
    IF S = {} THEN << >>
    ELSE LET least == CHOOSE x \in S : \A y \in S : TextRank(x) <= TextRank(y)
         IN  <<least>> \o SortedList(S \ {least})

\* the mutant of JudgeTasks: every model judges every pair
JudgeTasksAnyJudge(pair, category, models) ==
    [k \in 1..Len(models) |->
        [judge |-> models[k], model_a |-> pair[1], model_b |-> pair[2],
         category |-> category, pc |-> "new", winner |-> "", cached |-> FALSE,
         reply |-> << >>]]

\* for judge in possible_judges: battle_tasks.append(...)
JudgeTasks(pair, category, models) ==
    LET possible_judges == SelectSeq(models, LAMBDA j : j \notin {pair[1], pair[2]})
    IN  [k \in 1..Len(possible_judges) |->
            [judge |-> possible_judges[k], model_a |-> pair[1], model_b |-> pair[2],
             category |-> category, pc |-> "new", winner |-> "", cached |-> FALSE,
             reply |-> << >>]]

RECURSIVE CategoryTasks(_, _, _)
CategoryTasks(pair, categories, models) ==
    IF categories = << >> THEN << >>
    ELSE JudgeTasks(pair, Head(categories), models)
         \o CategoryTasks(pair, Tail(categories), models)

RECURSIVE MatchupTasks(_, _, _)
MatchupTasks(matchups, categories, models) ==
    IF matchups = << >> THEN << >>
    ELSE CategoryTasks(Head(matchups), categories, models)
         \o MatchupTasks(Tail(matchups), categories, models)

BattleTaskList(models, questions) ==
    MatchupTasks(Combinations2(models),
                 SortedList({questions[i].category : i \in 1..Len(questions)}),
                 models)

\* the mutant of Phase1Drained: phase 2 starts once the first task is done
Phase1DrainedFirstOnly == tasks # << >> => tasks[1].pc = "done"

\* await asyncio.gather(*tasks) returned
Phase1Drained == \A i \in 1..Len(tasks) : tasks[i].pc = "done"

FinishPhase1 ==
    /\ pc = "phase1"
    /\ Phase1Drained
    /\ results' = [m \in DOMAIN results |->
                     [responses  |-> ResponsesOf(tasks, m),
                      total_time |-> SumTime(ResponsesOf(tasks, m))]]
    /\ LET w == ResponseCache_save_if_dirty(response_cache, response_file, SYSTEM_PROMPT)
       IN  /\ response_cache' = w.obj
           /\ response_file' = w.file
    /\ battle_tasks' = BattleTaskList(MODELS, TEST_QUESTIONS)
    /\ battle_stats' = [m \in DOMAIN results |-> [wins |-> 0, losses |-> 0]]
    /\ pc' = "phase2"
    /\ UNCHANGED <<config, battle_file, battle_cache, semaphore, tasks,
                   results_battles, send_calls, judge_calls, prev, set_during,
                   verdict_by, persisted_under>>
    /\ UNCHANGED <<threading, pool, hashing>>
    /\ UNCHANGED <<phase3, observed>>

(***************************************************************************)
(* run_battle.  The judge's reply is free text; the model keeps what the   *)
(* parse reads of it: whether re.search finds a {...} span, whether        *)
(* json.loads accepts it, and the "winner" field (absent, not a string,    *)
(* or a string, kept as its characters).                                   *)
(***************************************************************************)
MaxCommon == 5

LengthThreshold == 160

JudgeReplies ==
    { [span |-> FALSE, loads |-> FALSE, has_winner |-> FALSE, is_str |-> FALSE, winner |-> << >>],
      [span |-> TRUE,  loads |-> FALSE, has_winner |-> FALSE, is_str |-> FALSE, winner |-> << >>],
      [span |-> TRUE,  loads |-> TRUE,  has_winner |-> FALSE, is_str |-> FALSE, winner |-> << >>],
      [span |-> TRUE,  loads |-> TRUE,  has_winner |-> TRUE,  is_str |-> FALSE, winner |-> << >>],
      [span |-> TRUE,  loads |-> TRUE,  has_winner |-> TRUE,  is_str |-> TRUE,  winner |-> <<"A">>],
      [span |-> TRUE,  loads |-> TRUE,  has_winner |-> TRUE,  is_str |-> TRUE,  winner |-> <<"B">>],
      [span |-> TRUE,  loads |-> TRUE,  has_winner |-> TRUE,  is_str |-> TRUE,  winner |-> <<" ", "b", " ">>],
      [span |-> TRUE,  loads |-> TRUE,  has_winner |-> TRUE,  is_str |-> TRUE,  winner |-> <<"t", "i", "e">>] }

\* str.upper on the characters the replies use
Upper(c) == CASE c = "b" -> "B" [] c = "t" -> "T" [] c = "i" -> "I" [] c = "e" -> "E"
              [] OTHER -> c

\* what the parse reads of the sentinel text of an exhausted send, "Error: All
\* keys failed": no {...} span
SentinelReply ==
    [span |-> FALSE, loads |-> FALSE, has_winner |-> FALSE, is_str |-> FALSE, winner |-> << >>]

\* the mutant of ParseWinner: no verdict without a parsed string winner field
ParseWinnerNoFallback(reply) ==
    IF reply.span /\ reply.loads /\ reply.has_winner /\ reply.is_str
    THEN IF \E k \in 1..Len(reply.winner) : Upper(reply.winner[k]) = "B"
         THEN "model_b" ELSE "model_a"
    ELSE ""

\* the parse of lines 731-740: model_a unless a string winner field holds a B
ParseWinner(reply) ==
    IF reply.span /\ reply.loads
    THEN LET w == IF reply.has_winner THEN reply.winner ELSE <<"A">>
         IN  IF reply.has_winner /\ ~reply.is_str
             THEN "model_a"
             ELSE IF \E k \in 1..Len(w) : Upper(w[k]) = "B" THEN "model_b" ELSE "model_a"
    ELSE "model_a"

\* {r["question"]: r["response"] for r in responses if r["category"] == category}:
\* a later response to the same question text replaces an earlier one
ResMap(responses, category) ==
    LET of_cat == SelectSeq(responses, LAMBDA r : r.category = category)
    IN  [q \in {of_cat[k].question : k \in 1..Len(of_cat)} |->
            of_cat[CHOOSE k \in 1..Len(of_cat) :
                      /\ of_cat[k].question = q
                      /\ \A n \in (k + 1)..Len(of_cat) : of_cat[n].question # q].response]

FirstN(seq, n) == SubSeq(seq, 1, IF Len(seq) < n THEN Len(seq) ELSE n)

RECURSIVE SumLen(_, _)
SumLen(res_map, common) ==
    IF common = << >> THEN 0
    ELSE Len(res_map[Head(common)]) + SumLen(res_map, Tail(common))

\* the mutant of LengthWinner: of two models over the threshold the first wins
LengthWinnerFirstWins(res_a_map, res_b_map, common) ==
    LET sum_a == SumLen(res_a_map, common)
        sum_b == SumLen(res_b_map, common)
        over  == LengthThreshold * Len(common)
    IN  IF sum_a > over /\ sum_b > over
        THEN "model_a"
        ELSE IF sum_a > over THEN "model_b"
        ELSE IF sum_b > over THEN "model_a"
        ELSE ""

\* the mutant of LengthWinner: the only model over the threshold wins
LengthWinnerLongWins(res_a_map, res_b_map, common) ==
    LET sum_a == SumLen(res_a_map, common)
        sum_b == SumLen(res_b_map, common)
        over  == LengthThreshold * Len(common)
    IN  IF sum_a > over /\ sum_b > over
        THEN IF sum_a < sum_b THEN "model_a" ELSE "model_b"
        ELSE IF sum_a > over THEN "model_a"
        ELSE IF sum_b > over THEN "model_b"
        ELSE ""

\* lines 703-710 (the averages compared as sums over the same common list)
LengthWinner(res_a_map, res_b_map, common) ==
    LET sum_a == SumLen(res_a_map, common)
        sum_b == SumLen(res_b_map, common)
        over  == LengthThreshold * Len(common)
    IN  IF sum_a > over /\ sum_b > over
        THEN IF sum_a < sum_b THEN "model_a" ELSE "model_b"
        ELSE IF sum_a > over THEN "model_b"
        ELSE IF sum_b > over THEN "model_a"
        ELSE ""

WinningModel(model_a, model_b, winner) == IF winner = "model_a" THEN model_a ELSE model_b

\* the log of returns, after battle task i returned
Logged(i) == IF logging THEN Append(completed, i) ELSE completed

\* lines 691-695: the first five, in sorted order, of the question texts both
\* contestants answered in the task's category
Common(t) ==
    FirstN(SortedList((DOMAIN ResMap(results[t.model_a].responses, t.category))
                      \cap (DOMAIN ResMap(results[t.model_b].responses, t.category))),
           MaxCommon)

(***************************************************************************)
(* run_battle, first part: with the permit, look the verdict up; on a miss *)
(* align the two models' responses, try the fallback and the length        *)
(* heuristic, and only then send the judge request and suspend.            *)
(***************************************************************************)
RunBattle_lookup(i, sem) ==
    LET t         == battle_tasks[i]
        key       == BattleKey(t.judge, t.model_a, t.model_b, t.category)
        cached    == BattleCache_get(battle_cache, t.judge, t.model_a, t.model_b, t.category)
        res_a_map == ResMap(results[t.model_a].responses, t.category)
        res_b_map == ResMap(results[t.model_b].responses, t.category)
        common    == Common(t)
        by_length == LengthWinner(res_a_map, res_b_map, common)
        given     == Semaphore_release(Semaphore_acquire(sem))
    IN  IF cached # None /\ cached[1] # ""
        THEN /\ battle_tasks' = [battle_tasks EXCEPT ![i].pc = "done",
                                                     ![i].winner = cached[1],
                                                     ![i].cached = TRUE]
             /\ semaphore' = given
             /\ completed' = Logged(i)
             /\ UNCHANGED <<battle_file, battle_cache, judge_calls, set_during,
                            verdict_by, persisted_under>>
        ELSE IF common = << >>
        THEN \* hash(model_a + model_b + category) % 2: str hashes are salted
             \* per process, so either verdict; it is returned without a set
             /\ \E w \in {"model_a", "model_b"} :
                   battle_tasks' = [battle_tasks EXCEPT ![i].pc = "done", ![i].winner = w]
             /\ semaphore' = given
             /\ completed' = Logged(i)
             /\ UNCHANGED <<battle_file, battle_cache, judge_calls, set_during,
                            verdict_by, persisted_under>>
        ELSE IF by_length # ""
        THEN LET w == BattleCache_set(battle_cache, battle_file, SYSTEM_PROMPT,
                                      JUDGE_BATTLE_PROMPT, t.judge, t.model_a, t.model_b,
                                      t.category, by_length)
             IN  /\ battle_cache' = w.obj
                 /\ battle_file' = w.file
                 /\ battle_tasks' = [battle_tasks EXCEPT ![i].pc = "done",
                                                         ![i].winner = by_length]
                 /\ semaphore' = given
                 /\ completed' = Logged(i)
                 /\ set_during' = [set_during EXCEPT !.battles = @ \cup {key}]
                 /\ verdict_by' = DictPut(verdict_by, key,
                                          WinningModel(t.model_a, t.model_b, by_length))
                 /\ persisted_under' = IF w.saved
                                       THEN <<SYSTEM_PROMPT, JUDGE_BATTLE_PROMPT>>
                                       ELSE persisted_under
                 /\ UNCHANGED judge_calls
        ELSE /\ battle_tasks' = [battle_tasks EXCEPT ![i].pc = "inflight"]
             /\ semaphore' = Semaphore_acquire(sem)
             /\ judge_calls' = Bump(judge_calls, key)
             /\ UNCHANGED <<battle_file, battle_cache, set_during, verdict_by,
                            persisted_under, completed>>

StartBattle(i) ==
    /\ pc = "phase2"
    /\ battle_tasks[i].pc = "new"
    /\ \A j \in 1..(i - 1) : battle_tasks[j].pc # "new"
    /\ IF Semaphore_free(semaphore) /\ semaphore.waiters = << >>
       THEN RunBattle_lookup(i, semaphore)
       ELSE /\ battle_tasks' = [battle_tasks EXCEPT ![i].pc = "waiting"]
            /\ semaphore' = [semaphore EXCEPT !.waiters = Append(@, i)]
            /\ UNCHANGED <<battle_file, battle_cache, judge_calls, set_during,
                           verdict_by, persisted_under, completed>>
    /\ UNCHANGED <<config, response_file, response_cache, pc, tasks, results,
                   results_battles, battle_stats, send_calls, prev>>
    /\ UNCHANGED <<threading, pool, hashing>>
    /\ UNCHANGED <<phase3, logging>>

WakeBattle(i) ==
    /\ pc = "phase2"
    /\ semaphore.waiters # << >>
    /\ Head(semaphore.waiters) = i
    /\ Semaphore_free(semaphore)
    /\ RunBattle_lookup(i, [semaphore EXCEPT !.waiters = Tail(@)])
    /\ UNCHANGED <<config, response_file, response_cache, pc, tasks, results,
                   results_battles, battle_stats, send_calls, prev>>
    /\ UNCHANGED <<threading, pool, hashing>>
    /\ UNCHANGED <<phase3, logging>>

(***************************************************************************)
(* run_battle, second part: the judge request returned (a reply, or the    *)
(* sentinel text, which holds no {...} span); the verdict is parsed,       *)
(* stored with set and returned.                                           *)
(***************************************************************************)
BattleReply(i, reply) ==
    /\ pc = "phase2"
    /\ battle_tasks[i].pc = "inflight"
    /\ LET t      == battle_tasks[i]
           key    == BattleKey(t.judge, t.model_a, t.model_b, t.category)
           winner == ParseWinner(reply)
           w      == BattleCache_set(battle_cache, battle_file, SYSTEM_PROMPT,
                                     JUDGE_BATTLE_PROMPT, t.judge, t.model_a, t.model_b,
                                     t.category, winner)
       IN  /\ battle_cache' = w.obj
           /\ battle_file' = w.file
           /\ battle_tasks' = [battle_tasks EXCEPT ![i].pc = "done", ![i].winner = winner,
                                                   ![i].reply = IF logging THEN <<reply>>
                                                                           ELSE << >>]
           /\ set_during' = [set_during EXCEPT !.battles = @ \cup {key}]
           /\ verdict_by' = DictPut(verdict_by, key, WinningModel(t.model_a, t.model_b, winner))
           /\ persisted_under' = IF w.saved THEN <<SYSTEM_PROMPT, JUDGE_BATTLE_PROMPT>>
                                            ELSE persisted_under
    /\ semaphore' = Semaphore_release(semaphore)
    /\ UNCHANGED <<config, response_file, response_cache, pc, tasks, results,
                   results_battles, battle_stats, send_calls, judge_calls, prev>>
    /\ UNCHANGED <<threading, pool, hashing>>
    /\ completed' = Logged(i)
    /\ UNCHANGED <<phase3, logging>>

(***************************************************************************)
(* Phase 3, lines 772-807: the Elo fold.  The code computes in binary      *)
(* floating point; the model computes in fixed point.  A rating is an      *)
(* integer number of hundredths of a point, an expected score an integer   *)
(* number of ten-thousandths; 10 ** x is exp(x ln 10) by its power series  *)
(* in ten-thousandths, with 1 / 10 ** -x for a negative x.  Every division *)
(* rounds down, and the terms stay within the 32 bit integers of the       *)
(* checker for rating differences up to 100 points.  With equal ratings    *)
(* the model is exact, as the code is: 10 ** 0.0 = 1.0, both expected      *)
(* scores 0.5, the update 16.0.                                            *)
(***************************************************************************)
initial_elo == 1000

K == 32

RatingUnit == 100

FixedOne == 10000

\* ln 10 = 2.302585..., in ten-thousandths
Ln10 == 23026

\* the series 1 + t + t^2/2! + ..., each term computed once from the one before
RECURSIVE ExpTerms(_, _, _)
ExpTerms(t, term, n) ==
    CHOOSE sum \in {IF x = 0 THEN 0 ELSE x + ExpTerms(t, (x * t) \div (FixedOne * n), n + 1)
                       : x \in {term}} : TRUE

\* exp(t) for t >= 0, t and the result in ten-thousandths
Exp(t) == ExpTerms(t, FixedOne, 1)

\* 10 ** (d / 400), d in hundredths of a point, the result in ten-thousandths
Pow10(d) ==
    IF d >= 0
    THEN Exp((d * Ln10) \div (400 * RatingUnit))
    ELSE (FixedOne * FixedOne) \div Exp(((0 - d) * Ln10) \div (400 * RatingUnit))

\* the mutant of Expected: the ratings are not looked at
ExpectedEven(rating_own, rating_other) == FixedOne \div 2

\* 1 / (1 + 10 ** ((rating_other - rating_own) / 400)), in ten-thousandths
Expected(rating_own, rating_other) ==
    (FixedOne * FixedOne) \div (FixedOne + Pow10(rating_other - rating_own))

\* K * (score - expected), in hundredths of a point
Gain(score, expected) == (K * (score - expected) * RatingUnit) \div FixedOne

\* the mutant of EloUpdate: the loser is given the winner's score
EloUpdateSameScore(ratings, m_a, m_b, winner) ==
    LET rating_a   == ratings[m_a]
        rating_b   == ratings[m_b]
        expected_a == Expected(rating_a, rating_b)
        expected_b == Expected(rating_b, rating_a)
        score_a    == IF winner = "model_a" THEN FixedOne ELSE 0
        with_a     == [ratings EXCEPT ![m_a] = @ + Gain(score_a, expected_a)]
    IN  [with_a EXCEPT ![m_b] = @ + Gain(score_a, expected_b)]

\* the body of the loops of lines 777-788 and 793-807
\* the mutant of EloUpdate: the loser's points are taken from every other model
EloUpdateEveryone(ratings, m_a, m_b, winner) ==
    LET rating_a   == ratings[m_a]
        rating_b   == ratings[m_b]
        expected_a == Expected(rating_a, rating_b)
        expected_b == Expected(rating_b, rating_a)
        score_a    == IF winner = "model_a" THEN FixedOne ELSE 0
        score_b    == FixedOne - score_a
        won        == IF winner = "model_a" THEN m_a ELSE m_b
    IN  [m \in DOMAIN ratings |->
            IF m = won THEN ratings[m] + Gain(FixedOne, IF won = m_a THEN expected_a ELSE expected_b)
            ELSE ratings[m] + Gain(0, IF won = m_a THEN expected_b ELSE expected_a)]

EloUpdate(ratings, m_a, m_b, winner) ==
    LET rating_a   == ratings[m_a]
        rating_b   == ratings[m_b]
        expected_a == Expected(rating_a, rating_b)
        expected_b == Expected(rating_b, rating_a)
        score_a    == IF winner = "model_a" THEN FixedOne ELSE 0
        score_b    == FixedOne - score_a
        with_a     == [ratings EXCEPT ![m_a] = @ + Gain(score_a, expected_a)]
    IN  [with_a EXCEPT ![m_b] = @ + Gain(score_b, expected_b)]

\* {mid: initial_elo for mid in model_ids}
InitialRatings(models) ==
    [m \in {models[i] : i \in 1..Len(models)} |-> initial_elo * RatingUnit]

\* the loop over results_battles; the table and the rest of the list are
\* bound once at each turn
RECURSIVE FoldElo(_, _)
FoldElo(ratings, rb) ==
    CHOOSE table \in {IF v = << >> THEN x
                      ELSE FoldElo(EloUpdate(x, Head(v)[1], Head(v)[2], Head(v)[3]), Tail(v))
                         : x \in {ratings}, v \in {rb}} : TRUE

\* the mutant of GlobalElo: the verdicts folded from the last to the first
GlobalEloLastFirst(models, rb) ==
    FoldElo(InitialRatings(models), [i \in 1..Len(rb) |-> rb[Len(rb) + 1 - i]])

\* lines 773-788
GlobalElo(models, rb) == FoldElo(InitialRatings(models), rb)

\* the mutant of CategoryElos: every verdict is applied to every category table
CategoryElosEvery(models, questions, rb) ==
    [cat \in {questions[i].category : i \in 1..Len(questions)} |->
        FoldElo(InitialRatings(models), rb)]

\* lines 791-807: one table per judged category, folded with the verdicts of
\* that category
CategoryElos(models, questions, rb) ==
    [cat \in {questions[i].category : i \in 1..Len(questions)} |->
        FoldElo(InitialRatings(models), SelectSeq(rb, LAMBDA r : r[4] = cat))]

(***************************************************************************)
(* After the battles: gather returns the verdicts in task order, the       *)
(* win/loss counts are folded, the battle cache is flushed; the ratings    *)
(* and the report are functions of results_battles.                        *)
(***************************************************************************)
\* the mutant of ResultsBattles: the verdicts in the opposite order
ResultsBattlesReversed(bts) ==
    [i \in 1..Len(bts) |->
        <<bts[Len(bts) + 1 - i].model_a, bts[Len(bts) + 1 - i].model_b,
          bts[Len(bts) + 1 - i].winner, bts[Len(bts) + 1 - i].category,
          bts[Len(bts) + 1 - i].cached>>]

ResultsBattles(bts) ==
    [i \in 1..Len(bts) |->
        <<bts[i].model_a, bts[i].model_b, bts[i].winner, bts[i].category, bts[i].cached>>]

RECURSIVE FoldStats(_, _)
FoldStats(stats, rb) ==
    IF rb = << >> THEN stats
    ELSE LET r   == Head(rb)
             won == IF r[3] = "model_a" THEN r[1] ELSE r[2]
             lost == IF r[3] = "model_a" THEN r[2] ELSE r[1]
         IN  FoldStats([stats EXCEPT ![won].wins = @ + 1, ![lost].losses = @ + 1], Tail(rb))

Phase2Drained == \A i \in 1..Len(battle_tasks) : battle_tasks[i].pc = "done"

FinishPhase2 ==
    /\ pc = "phase2"
    /\ Phase2Drained
    /\ results_battles' = ResultsBattles(battle_tasks)
    /\ battle_stats' = FoldStats(battle_stats, ResultsBattles(battle_tasks))
    /\ LET w == BattleCache_save_if_dirty(battle_cache, battle_file, SYSTEM_PROMPT,
                                          JUDGE_BATTLE_PROMPT)
       IN  /\ battle_cache' = w.obj
           /\ battle_file' = w.file
           /\ persisted_under' = IF w.saved THEN <<SYSTEM_PROMPT, JUDGE_BATTLE_PROMPT>>
                                            ELSE persisted_under
    /\ pc' = "done"
    /\ UNCHANGED <<config, response_file, response_cache, semaphore, tasks, results,
                   battle_tasks, send_calls, judge_calls, prev, set_during, verdict_by>>
    /\ UNCHANGED <<threading, pool, hashing>>
    /\ elo_ratings' = GlobalElo(MODELS, ResultsBattles(battle_tasks))
    /\ category_elos' = CategoryElos(MODELS, TEST_QUESTIONS, ResultsBattles(battle_tasks))
    /\ UNCHANGED observed

(***************************************************************************)
(* The operator interrupts the run (main's except KeyboardInterrupt): the  *)
(* process ends where it is, nothing is flushed, its memory is gone.       *)
(***************************************************************************)
Interrupt ==
    /\ pc \in {"phase1", "phase2"}
    /\ pc' = "off"
    /\ response_cache' = NewCache
    /\ battle_cache' = NewCache
    /\ semaphore' = [value |-> GateCapacity, waiters |-> << >>]
    /\ tasks' = << >>
    /\ results' = EmptyDict
    /\ battle_tasks' = << >>
    /\ results_battles' = << >>
    /\ battle_stats' = EmptyDict
    /\ send_calls' = EmptyDict
    /\ judge_calls' = EmptyDict
    /\ UNCHANGED <<config, files, prev, set_during, verdict_by, persisted_under>>
    /\ UNCHANGED <<threading, pool, hashing>>
    /\ elo_ratings' = EmptyDict
    /\ category_elos' = EmptyDict
    /\ completed' = << >>
    /\ UNCHANGED logging

(***************************************************************************)
(* The steps of a process, for the script versions (configs), endpoint     *)
(* answers (outcomes) and judge replies (replies) of an environment.       *)
(***************************************************************************)
Phase1Step(outcomes) ==
    \/ \E i \in 1..Len(tasks) : StartResponse(i)
    \/ \E i \in 1..Len(tasks) : WakeResponse(i)
    \/ \E i \in 1..Len(tasks), out \in outcomes : ResponseReply(i, out)
    \/ FinishPhase1

Phase2Step(replies) ==
    \/ \E i \in 1..Len(battle_tasks) : StartBattle(i)
    \/ \E i \in 1..Len(battle_tasks) : WakeBattle(i)
    \/ \E i \in 1..Len(battle_tasks), reply \in replies : BattleReply(i, reply)

Question(c, q) == [category |-> c, question |-> q]

Config(p, r, ms, qs) ==
    [system_prompt |-> p, judge_prompt |-> r, models |-> ms, questions |-> qs]

(***************************************************************************)
(* Spec: three models (so every pair has a judge) and one question; the    *)
(* MODELS list is reordered between runs, the prompts are not.             *)
(***************************************************************************)
Configs ==
    { Config("persona", "rubric", ms, <<Question("greetings", "hey")>>)
      : ms \in {<<"ma", "mb", "mc">>, <<"mb", "ma", "mc">>} }

Next ==
    \/ \E cfg \in Configs : StartProcess(cfg)
    \/ Phase1Step(SendOutcomes)
    \/ Phase2Step(JudgeReplies)
    \/ FinishPhase2
    \/ Interrupt

Spec == Init /\ [][Next]_vars

(***************************************************************************)
(* SpecResp: two models (no pair has a judge, so phase 2 has no task) and  *)
(* a question set in which one text occurs in two categories; the persona  *)
(* is edited between runs.                                                 *)
(***************************************************************************)
RespConfigs ==
    { Config(p, "rubric", <<"ma", "mb">>,
             <<Question("greetings", "hey"), Question("flirty", "hey"),
               Question("greetings", "yo")>>)
      : p \in {"persona", "personaX"} }

RespOutcomes == {o \in SendOutcomes : o.response # LongText}

NextResp ==
    \/ \E cfg \in RespConfigs : StartProcess(cfg)
    \/ Phase1Step(RespOutcomes)
    \/ FinishPhase2
    \/ Interrupt

SpecResp == Init /\ [][NextResp]_vars

(***************************************************************************)
(* SpecPrompts: three models, one question; the persona and the rubric     *)
(* are edited between runs, the endpoint always answers the short reply.   *)
(***************************************************************************)
PromptConfigs ==
    { Config(pr[1], pr[2], <<"ma", "mb", "mc">>, <<Question("greetings", "hey")>>)
      : pr \in {<<"persona", "rubric">>, <<"persona", "Xrubric">>, <<"personaX", "rubric">>} }

PromptOutcomes == {o \in SendOutcomes : o.response = "sup"}

PromptReplies == {r \in JudgeReplies : r.is_str /\ Len(r.winner) = 1}

NextPrompts ==
    \/ \E cfg \in PromptConfigs : StartProcess(cfg)
    \/ Phase1Step(PromptOutcomes)
    \/ Phase2Step(PromptReplies)
    \/ FinishPhase2
    \/ Interrupt

SpecPrompts == Init /\ [][NextPrompts]_vars

(***************************************************************************)
(* SpecLengths: three models, one question, in either order of the first   *)
(* two models; the endpoint answers the short reply or one of two replies  *)
(* longer than the threshold, the judge answers A or B.                    *)
(***************************************************************************)
LongerText == LongText \o Text40

LengthOutcomes ==
    { [response |-> "sup", elapsed |-> 1, usage |-> {<<"completion_tokens", 1>>}],
      [response |-> LongText, elapsed |-> 2, usage |-> {<<"completion_tokens", 40>>}],
      [response |-> LongerText, elapsed |-> 3, usage |-> {<<"completion_tokens", 50>>}] }

NextLengths ==
    \/ \E cfg \in Configs : StartProcess(cfg)
    \/ Phase1Step(LengthOutcomes)
    \/ Phase2Step(PromptReplies)
    \/ FinishPhase2
    \/ Interrupt

SpecLengths == Init /\ [][NextLengths]_vars

(***************************************************************************)
(* SpecScenario: two models and one category of three questions.  The      *)
(* judges are the models themselves (judges = MODELS.copy(), line 664), so *)
(* the only judges there can be for the one pair are its two contestants.  *)
(***************************************************************************)
ScenarioConfigs ==
    { Config("persona", "rubric", <<"ma", "mb">>,
             <<Question("greetings", "hey"), Question("greetings", "yo"),
               Question("greetings", "sup")>>) }

NextScenario ==
    \/ \E cfg \in ScenarioConfigs : StartProcess(cfg)
    \/ Phase1Step(RespOutcomes)
    \/ FinishPhase2
    \/ Interrupt

SpecScenario == Init /\ [][NextScenario]_vars

(***************************************************************************)
(* SpecJudged: three models in either order, one question, the endpoint    *)
(* always answers the short reply, so that every battle that misses the    *)
(* cache goes to the judge; any judge reply; the log is kept.              *)
(***************************************************************************)
NextJudged ==
    \/ \E cfg \in Configs : StartProcess(cfg)
    \/ Phase1Step(PromptOutcomes)
    \/ Phase2Step(JudgeReplies)
    \/ FinishPhase2
    \/ Interrupt

SpecJudged == InitLogged /\ [][NextJudged]_vars

(***************************************************************************)
(* SpecCategories: three models on one question in each of two            *)
(* categories, so that the battle list holds every pair twice, once per    *)
(* category; the responses are short and the judge names A or B.           *)
(***************************************************************************)
CategoryConfigs ==
    { Config("persona", "rubric", <<"ma", "mb", "mc">>,
             <<Question("flirty", "hey"), Question("greetings", "hey")>>) }

NextCategories ==
    \/ \E cfg \in CategoryConfigs : StartProcess(cfg)
    \/ Phase1Step(PromptOutcomes)
    \/ Phase2Step(PromptReplies)
    \/ FinishPhase2
    \/ Interrupt

SpecCategories == Init /\ [][NextCategories]_vars

(***************************************************************************)
(* SpecFallback: line 700 of run_battle, winner = "model_a" if              *)
(* hash(model_a + model_b + category) % 2 == 0 else "model_b", over the    *)
(* processes that evaluate it.  hash() of a str is keyed with a value the  *)
(* interpreter draws when it starts (unless PYTHONHASHSEED fixes it), so a *)
(* process has one hash value for a text, and another process may have    *)
(* another: str_hash is the hash of the running process on the texts the   *)
(* line is given, any function into HashValues.                            *)
(***************************************************************************)
HashValues == 0..3

FallbackPairs == {<<"ma", "mb">>, <<"ma", "mc">>, <<"mb", "mc">>}

FallbackCategories == {"greetings"}

HashedTexts == {p[1] \o p[2] \o c : p \in FallbackPairs, c \in FallbackCategories}

\* line 700
FallbackWinner(h, model_a, model_b, category) ==
    IF h[model_a \o model_b \o category] % 2 = 0 THEN "model_a" ELSE "model_b"

\* the interpreter starts: it keys its str hash
HashStart(h) ==
    /\ pc = "hash"
    /\ str_hash' = h
    /\ fallbacks' = [now    |-> EmptyDict,
                     before |-> [k \in (DOMAIN fallbacks.before) \cup (DOMAIN fallbacks.now) |->
                                    IF k \in DOMAIN fallbacks.now THEN fallbacks.now[k]
                                                                  ELSE fallbacks.before[k]]]
    /\ UNCHANGED <<config, files, caches, pc, semaphore, tasks, results, phase2, history,
                   threading, pool, phase3, observed>>

\* the process evaluates line 700 for a pair and a category
Fallback(model_a, model_b, category) ==
    /\ pc = "hash"
    /\ str_hash # EmptyDict
    /\ fallbacks' = [fallbacks EXCEPT !.now =
                        DictPut(@, model_a \o model_b \o category,
                                FallbackWinner(str_hash, model_a, model_b, category))]
    /\ UNCHANGED <<config, files, caches, pc, semaphore, tasks, results, phase2, history,
                   threading, pool, phase3, observed, str_hash>>

NextFallback ==
    \/ \E h \in [HashedTexts -> HashValues] : HashStart(h)
    \/ \E p \in FallbackPairs, c \in FallbackCategories : Fallback(p[1], p[2], c)

SpecFallback == InitRun("hash", FALSE) /\ [][NextFallback]_vars

(***************************************************************************)
(* SpecThreads: get, set and save_if_dirty of one cache instance called    *)
(* from several threads, statement by statement.  A thread is              *)
(* [pc, op, tmp, got, expect, snap]; op is [kind, args, value].  The       *)
(* with-block of _save only takes a reference to the dict, so it is one    *)
(* step that needs the lock free; json.dump then walks the live dict       *)
(* outside the lock, and the flag and the counter are cleared outside the  *)
(* lock.                                                                   *)
(***************************************************************************)
NumThreads == 2

MaxThreadOps == 3

NoOp == [kind |-> "none", args |-> << >>, value |-> << >>]

IdleThread == [pc |-> "idle", op |-> NoOp, tmp |-> 0, got |-> None, expect |-> None,
               snap |-> EmptyDict]

Entry(out) == [response |-> out.response, elapsed |-> out.elapsed, usage |-> out.usage]

ThreadOps(cls) ==
    IF cls = "response"
    THEN { [kind |-> "set", args |-> <<"ma", "hey">>,
            value |-> <<Entry(CHOOSE o \in SendOutcomes : o.response = "sup")>>],
           [kind |-> "set", args |-> <<"ma", "hey">>, value |-> <<Entry(Sentinel)>>],
           [kind |-> "set", args |-> <<"mb", "hey">>, value |-> <<Entry(Sentinel)>>],
           [kind |-> "get", args |-> <<"ma", "hey">>, value |-> << >>],
           [kind |-> "save_if_dirty", args |-> << >>, value |-> << >>] }
    ELSE { [kind |-> "set", args |-> <<"mc", "ma", "mb", "greetings">>, value |-> <<"model_a">>],
           [kind |-> "set", args |-> <<"mc", "mb", "ma", "greetings">>, value |-> <<"model_b">>],
           [kind |-> "set", args |-> <<"ma", "mb", "mc", "greetings">>, value |-> <<"model_a">>],
           [kind |-> "get", args |-> <<"mc", "mb", "ma", "greetings">>, value |-> << >>],
           [kind |-> "save_if_dirty", args |-> << >>, value |-> << >>] }

OpKey(op) ==
    IF instance = "response"
    THEN ResponseKey(op.args[1], op.args[2])
    ELSE BattleKey(op.args[1], op.args[2], op.args[3], op.args[4])

TheCache == IF instance = "response" THEN response_cache ELSE battle_cache

TheBatch == IF instance = "response" THEN ResponseBatch ELSE BattleBatch

TheHash == IF instance = "response" THEN ResponseHash(SYSTEM_PROMPT)
                                    ELSE CombinedHash(SYSTEM_PROMPT, JUDGE_BATTLE_PROMPT)

Assigned(cache, key, value) ==
    IF instance = "response" THEN ResponseCache_assign(cache, key, value)
                             ELSE BattleCache_assign(cache, key, value)

PutCache(obj) ==
    IF instance = "response"
    THEN response_cache' = obj /\ UNCHANGED battle_cache
    ELSE battle_cache' = obj /\ UNCHANGED response_cache

PutFile(file) ==
    IF instance = "response"
    THEN response_file' = file /\ UNCHANGED battle_file
    ELSE battle_file' = file /\ UNCHANGED response_file

\* open(cache_file, "w") has truncated the file and the dump is not complete
TornFile == [exists |-> TRUE, hash |-> "", entries |-> EmptyDict]

rest == <<config, pc, semaphore, tasks, results, phase2, history, pool, phase3, observed,
         hashing>>

InitThreads ==
    /\ SYSTEM_PROMPT = "persona"
    /\ JUDGE_BATTLE_PROMPT = "rubric"
    /\ MODELS = <<"ma", "mb", "mc">>
    /\ TEST_QUESTIONS = <<Question("greetings", "hey")>>
    /\ response_file = NoFile
    /\ battle_file = NoFile
    /\ response_cache = NewCache
    /\ battle_cache = NewCache
    /\ pc = "threads"
    /\ semaphore = [value |-> GateCapacity, waiters |-> << >>]
    /\ tasks = << >>
    /\ results = EmptyDict
    /\ battle_tasks = << >>
    /\ results_battles = << >>
    /\ battle_stats = EmptyDict
    /\ send_calls = EmptyDict
    /\ judge_calls = EmptyDict
    /\ prev = [unchanged |-> FALSE, entries |-> EmptyDict]
    /\ set_during = [responses |-> {}, battles |-> {}]
    /\ verdict_by = EmptyDict
    /\ persisted_under = <<"", "">>
    /\ instance \in {"response", "battle"}
    /\ lock = 0
    /\ threads = [t \in 1..NumThreads |-> IdleThread]
    /\ ops_left = MaxThreadOps
    /\ lin = EmptyDict
    /\ keys = << >>
    /\ requests = << >>
    /\ elo_ratings = EmptyDict
    /\ category_elos = EmptyDict
    /\ logging = FALSE
    /\ completed = << >>
    /\ str_hash = EmptyDict
    /\ fallbacks = [now |-> EmptyDict, before |-> EmptyDict]

\* lin, the sequential history: the values the sets wrote under a key, in the
\* order of their assignments
Written(key) == IF key \in DOMAIN lin THEN lin[key] ELSE << >>

LastWritten(key) ==
    IF key \in DOMAIN lin THEN <<lin[key][Len(lin[key])]>> ELSE None

\* threading.Lock: acquire blocks while another thread holds it
Lock_free(l) == l = 0

\* a thread calls get, set or save_if_dirty
ThreadCall(t, op) ==
    /\ pc = "threads"
    /\ threads[t].pc = "idle"
    /\ ops_left > 0
    /\ ops_left' = ops_left - 1
    /\ threads' = [threads EXCEPT ![t] = [IdleThread EXCEPT !.op = op,
                                                           !.pc = op.kind]]
    /\ UNCHANGED <<rest, files, caches, instance, lock, lin>>

\* get and set: with self._lock
ThreadAcquire(t) ==
    /\ threads[t].pc \in {"get", "set"}
    /\ Lock_free(lock)
    /\ lock' = t
    /\ threads' = [threads EXCEPT ![t].pc = IF @ = "get" THEN "get_read" ELSE "set_assign"]
    /\ UNCHANGED <<rest, files, caches, instance, ops_left, lin>>

\* get: return self.cache.get(key), leaving the with-block
ThreadGetRead(t) ==
    /\ threads[t].pc = "get_read"
    /\ threads' = [threads EXCEPT ![t].pc = "idle",
                                  ![t].got = DictGet(TheCache.cache, OpKey(threads[t].op)),
                                  ![t].expect = LastWritten(OpKey(threads[t].op))]
    /\ lock' = 0
    /\ UNCHANGED <<rest, files, caches, instance, ops_left, lin>>

\* set: self.cache[key] = value
ThreadSetAssign(t) ==
    /\ threads[t].pc = "set_assign"
    /\ PutCache([TheCache EXCEPT
                    !.cache = Assigned(@, OpKey(threads[t].op), threads[t].op.value[1])])
    /\ lin' = DictPut(lin, OpKey(threads[t].op),
                      Append(Written(OpKey(threads[t].op)), threads[t].op.value[1]))
    /\ threads' = [threads EXCEPT ![t].pc = "set_dirty"]
    /\ UNCHANGED <<rest, files, instance, lock, ops_left>>

\* set: self._dirty = True
ThreadSetDirty(t) ==
    /\ threads[t].pc = "set_dirty"
    /\ PutCache([TheCache EXCEPT !.dirty = TRUE])
    /\ threads' = [threads EXCEPT ![t].pc = "set_count_read"]
    /\ UNCHANGED <<rest, files, instance, lock, ops_left, lin>>

\* set: self._unsaved_count += 1, the read
ThreadSetCountRead(t) ==
    /\ threads[t].pc = "set_count_read"
    /\ threads' = [threads EXCEPT ![t].pc = "set_count_write", ![t].tmp = TheCache.unsaved]
    /\ UNCHANGED <<rest, files, caches, instance, lock, ops_left, lin>>

\* set: self._unsaved_count += 1, the write
ThreadSetCountWrite(t) ==
    /\ threads[t].pc = "set_count_write"
    /\ PutCache([TheCache EXCEPT !.unsaved = threads[t].tmp + 1])
    /\ threads' = [threads EXCEPT ![t].pc = "set_check"]
    /\ UNCHANGED <<rest, files, instance, lock, ops_left, lin>>

\* set: if self._unsaved_count >= N: should_save = True; the with-block ends
ThreadSetCheck(t) ==
    /\ threads[t].pc = "set_check"
    /\ threads' = [threads EXCEPT ![t].pc = IF TheCache.unsaved >= TheBatch
                                           THEN "save" ELSE "idle"]
    /\ lock' = 0
    /\ UNCHANGED <<rest, files, caches, instance, ops_left, lin>>

\* save_if_dirty: if self._dirty (read without the lock)
ThreadSaveIfDirty(t) ==
    /\ threads[t].pc = "save_if_dirty"
    /\ threads' = [threads EXCEPT ![t].pc = IF TheCache.dirty THEN "save" ELSE "idle"]
    /\ UNCHANGED <<rest, files, caches, instance, lock, ops_left, lin>>

\* _save: the with-block (mkdir, cache_data refers to self.cache)
ThreadSaveRef(t) ==
    /\ threads[t].pc = "save"
    /\ Lock_free(lock)
    /\ threads' = [threads EXCEPT ![t].pc = "save_open"]
    /\ UNCHANGED <<rest, files, caches, instance, lock, ops_left, lin>>

\* _save: open(self.cache_file, "w"); json.dump starts to walk the dict
ThreadSaveOpen(t) ==
    /\ threads[t].pc = "save_open"
    /\ PutFile(TornFile)
    /\ threads' = [threads EXCEPT ![t].pc = "save_dump", ![t].snap = TheCache.cache]
    /\ UNCHANGED <<rest, caches, instance, lock, ops_left, lin>>

\* _save: json.dump ends.  A key inserted meanwhile either was met by the walk
\* (RuntimeError: dictionary changed size during iteration; the file stays
\* torn and the call raises), or came before the walk began (written), or
\* after it ended (not written); a value replaced meanwhile is written as
\* either value.
ThreadSaveDump(t) ==
    /\ threads[t].pc = "save_dump"
    /\ LET snap == threads[t].snap
           now  == TheCache.cache
       IN  \/ /\ DOMAIN now # DOMAIN snap
              /\ threads' = [threads EXCEPT ![t].pc = "idle", ![t].snap = EmptyDict]
              /\ UNCHANGED files
           \/ \E walked \in {snap, now} :
                 \E written \in [DOMAIN walked -> {snap[k] : k \in DOMAIN snap}
                                                  \cup {now[k] : k \in DOMAIN now}] :
                    /\ \A k \in DOMAIN walked :
                          written[k] \in {now[k]}
                                         \cup (IF k \in DOMAIN snap THEN {snap[k]} ELSE {})
                    /\ PutFile(FileOf(TheHash, written))
                    /\ threads' = [threads EXCEPT ![t].pc = "save_clear_dirty",
                                                  ![t].snap = EmptyDict]
    /\ UNCHANGED <<rest, caches, instance, lock, ops_left, lin>>

\* _save: self._dirty = False
ThreadSaveClearDirty(t) ==
    /\ threads[t].pc = "save_clear_dirty"
    /\ PutCache([TheCache EXCEPT !.dirty = FALSE])
    /\ threads' = [threads EXCEPT ![t].pc = "save_clear_count"]
    /\ UNCHANGED <<rest, files, instance, lock, ops_left, lin>>

\* _save: self._unsaved_count = 0
ThreadSaveClearCount(t) ==
    /\ threads[t].pc = "save_clear_count"
    /\ PutCache([TheCache EXCEPT !.unsaved = 0])
    /\ threads' = [threads EXCEPT ![t].pc = "idle"]
    /\ UNCHANGED <<rest, files, instance, lock, ops_left, lin>>

NextThreads ==
    \/ \E t \in 1..NumThreads, op \in ThreadOps(instance) : ThreadCall(t, op)
    \/ \E t \in 1..NumThreads : ThreadAcquire(t)
    \/ \E t \in 1..NumThreads : ThreadGetRead(t)
    \/ \E t \in 1..NumThreads : ThreadSetAssign(t)
    \/ \E t \in 1..NumThreads : ThreadSetDirty(t)
    \/ \E t \in 1..NumThreads : ThreadSetCountRead(t)
    \/ \E t \in 1..NumThreads : ThreadSetCountWrite(t)
    \/ \E t \in 1..NumThreads : ThreadSetCheck(t)
    \/ \E t \in 1..NumThreads : ThreadSaveIfDirty(t)
    \/ \E t \in 1..NumThreads : ThreadSaveRef(t)
    \/ \E t \in 1..NumThreads : ThreadSaveOpen(t)
    \/ \E t \in 1..NumThreads : ThreadSaveDump(t)
    \/ \E t \in 1..NumThreads : ThreadSaveClearDirty(t)
    \/ \E t \in 1..NumThreads : ThreadSaveClearCount(t)

SpecThreads == InitThreads /\ [][NextThreads]_vars

(***************************************************************************)
(* KeyManager: the pool of credentials, in the order of the comma          *)
(* separated CEREBRAS_API_KEY, each with its failure count.                *)
(***************************************************************************)
KeyNames == {"ka", "kb"}

MaxKeys == 2

MaxRequests == 2

RECURSIVE SeqsUpTo(_, _)
SeqsUpTo(S, n) ==
    IF n = 0 THEN {<< >>}
    ELSE SeqsUpTo(S, n - 1)
         \cup {Append(q, x) : q \in {p \in SeqsUpTo(S, n - 1) : Len(p) = n - 1}, x \in S}

\* KeyState(key=key)
KeyState(key) == [key |-> key, failure_count |-> 0]

\* KeyManager.__init__, for the non-empty stripped parts of the string
KeyManager_init(names) == [i \in 1..Len(names) |-> KeyState(names[i])]

\* the mutant of KeyManager_candidates: the exclusion is ignored
KeyManager_candidatesAll(ks, exclude) == ks

\* get_best_key: [k for k in self.keys if not exclude or k.key not in exclude]
KeyManager_candidates(ks, exclude) ==
    SelectSeq(ks, LAMBDA k : exclude = {} \/ k.key \notin exclude)

\* the mutant of KeyManager_min: the first candidate, whatever its count
KeyManager_minFirst(candidates) == candidates[1]

\* min(candidates, key=lambda k: k.failure_count): the first of the least
KeyManager_min(candidates) ==
    candidates[CHOOSE i \in 1..Len(candidates) :
                  /\ \A j \in 1..Len(candidates) :
                        candidates[j].failure_count >= candidates[i].failure_count
                  /\ \A j \in 1..(i - 1) :
                        candidates[j].failure_count > candidates[i].failure_count]

\* the mutant of KeyManager_get_best_key: the first key not excluded, in the
\* order of the list, whatever the counts
KeyManager_get_best_keyListOrder(ks, exclude) ==
    IF KeyManager_candidates(ks, exclude) = << >> THEN None
    ELSE <<KeyManager_candidates(ks, exclude)[1].key>>

\* KeyManager.get_best_key
KeyManager_get_best_key(ks, exclude) ==
    IF ks = << >> THEN None
    ELSE LET candidates == KeyManager_candidates(ks, exclude)
         IN  IF candidates = << >> THEN None
             ELSE <<KeyManager_min(candidates).key>>

\* for k in self.keys: if k.key == key_str: ...; break
FirstMatch(ks, key_str) ==
    {i \in 1..Len(ks) : ks[i].key = key_str /\ \A j \in 1..(i - 1) : ks[j].key # key_str}

\* the mutant of KeyManager_record_success: the count is lowered without a floor
KeyManager_record_successNoFloor(ks, key_str, elapsed) ==
    [i \in 1..Len(ks) |->
        IF i \in FirstMatch(ks, key_str)
        THEN [ks[i] EXCEPT !.failure_count = @ - 1]
        ELSE ks[i]]

\* KeyManager.record_success (last_success, a clock reading, is left out)
KeyManager_record_success(ks, key_str, elapsed) ==
    [i \in 1..Len(ks) |->
        IF i \in FirstMatch(ks, key_str)
        THEN [ks[i] EXCEPT !.failure_count = IF @ - 1 > 0 THEN @ - 1 ELSE 0]
        ELSE ks[i]]

\* the mutant of KeyManager_record_failure: a rate limit weighs double
KeyManager_record_failureWeighted(ks, key_str, is_rate_limit) ==
    [i \in 1..Len(ks) |->
        IF i \in FirstMatch(ks, key_str)
        THEN [ks[i] EXCEPT !.failure_count = @ + (IF is_rate_limit THEN 2 ELSE 1)]
        ELSE ks[i]]

\* KeyManager.record_failure
KeyManager_record_failure(ks, key_str, is_rate_limit) ==
    [i \in 1..Len(ks) |->
        IF i \in FirstMatch(ks, key_str)
        THEN [ks[i] EXCEPT !.failure_count = @ + 1]
        ELSE ks[i]]

(***************************************************************************)
(* query_model_async, between its suspension points.  A call is            *)
(* [pc, tried, attempts, key, result, exc]: pc is "new", "post" (awaiting  *)
(* session.post), "read" (awaiting response.json()), "returned" or         *)
(* "raised"; attempts lists the keys in the order they were tried.  History *)
(* (not read by any guard): failed counts the attempts of the call that    *)
(* were recorded as failures, body_failed tells that one of them failed    *)
(* after a 200.                                                            *)
(* What the endpoint does with an attempt is the environment's choice:     *)
(* env[key].post is the set of outcomes of the post with that key, a       *)
(* status or an exception; env[key].body those of reading a 200 reply.     *)
(***************************************************************************)
NewRequest == [pc |-> "new", tried |-> {}, attempts |-> << >>, key |-> "",
               result |-> None, exc |-> "", failed |-> 0, body_failed |-> FALSE]

PostOutcomes ==
    { [status |-> 200, exc |-> ""], [status |-> 429, exc |-> ""],
      [status |-> 500, exc |-> ""], [status |-> 0, exc |-> "TimeoutError"],
      [status |-> 0, exc |-> "ClientError"] }

BodyOutcomes ==
    { [choices |-> TRUE, exc |-> ""], [choices |-> FALSE, exc |-> ""],
      [choices |-> TRUE, exc |-> "ContentTypeError"],
      [choices |-> TRUE, exc |-> "KeyError"] }

\* the mutant of Caught: only the errors of the transport are handled
CaughtTransportOnly(exc) == exc \in {"TimeoutError", "ClientError"}

\* except Exception: these are all subclasses of Exception
Caught(exc) == exc \in {"TimeoutError", "ClientError", "ContentTypeError", "KeyError"}

Returned(req, response, elapsed, usage) ==
    [req EXCEPT !.pc = "returned",
                !.result = <<[response |-> response, elapsed |-> elapsed, usage |-> usage]>>]

\* while len(tried_keys) < len(key_manager.keys): the next key is picked and
\* posted with, or the loop ends and the sentinel is returned
Query_loop(ks, req) ==
    IF Cardinality(req.tried) < Len(ks)
    THEN LET key == KeyManager_get_best_key(ks, req.tried)
         IN  IF key = None
             THEN Returned(req, Sentinel.response, Sentinel.elapsed, Sentinel.usage)
             ELSE [req EXCEPT !.pc = "post",
                              !.key = key[1],
                              !.tried = @ \cup {key[1]},
                              !.attempts = Append(@, key[1])]
    ELSE Returned(req, Sentinel.response, Sentinel.elapsed, Sentinel.usage)

\* an exception inside the try block: except Exception records the failure
\* and the loop goes on; any other exception leaves the call
Query_except(r, exc) ==
    IF Caught(exc)
    THEN /\ keys' = KeyManager_record_failure(keys, requests[r].key, FALSE)
         /\ requests' = [requests EXCEPT ![r] =
                             Query_loop(keys', [@ EXCEPT !.failed = @ + 1,
                                                         !.body_failed = @ \/ requests[r].pc = "read"])]
    ELSE /\ requests' = [requests EXCEPT ![r].pc = "raised", ![r].exc = exc]
         /\ UNCHANGED keys

unpooled == <<config, files, caches, pc, semaphore, tasks, results, phase2, history,
              threading, phase3, observed, hashing>>

\* the call, up to its first post
QueryStart(r) ==
    /\ pc = "keys"
    /\ requests[r].pc = "new"
    /\ requests' = [requests EXCEPT ![r] = Query_loop(keys, requests[r])]
    /\ UNCHANGED <<keys, unpooled>>

\* session.post returned a status, or raised
PostReturns(r, env) ==
    /\ pc = "keys"
    /\ requests[r].pc = "post"
    /\ \E out \in env[requests[r].key].post :
          IF out.exc # ""
          THEN Query_except(r, out.exc)
          ELSE IF out.status = 200
          THEN /\ keys' = KeyManager_record_success(keys, requests[r].key, 1)
               /\ requests' = [requests EXCEPT ![r].pc = "read"]
          ELSE /\ keys' = KeyManager_record_failure(keys, requests[r].key, out.status = 429)
               /\ requests' = [requests EXCEPT ![r] =
                                   Query_loop(keys', [@ EXCEPT !.failed = @ + 1])]
    /\ UNCHANGED unpooled

\* response.json() returned the body, or it or the access to the content raised
BodyReturns(r, env) ==
    /\ pc = "keys"
    /\ requests[r].pc = "read"
    /\ \E body \in env[requests[r].key].body :
          IF body.exc # ""
          THEN Query_except(r, body.exc)
          ELSE /\ requests' = [requests EXCEPT ![r] =
                                  IF body.choices
                                  THEN Returned(@, "sup", 1, {<<"completion_tokens", 3>>})
                                  ELSE Returned(@, "", 1, {})]
               /\ UNCHANGED keys
    /\ UNCHANGED unpooled

KeysStep(env) ==
    \/ \E r \in 1..Len(requests) : QueryStart(r)
    \/ \E r \in 1..Len(requests) : PostReturns(r, env)
    \/ \E r \in 1..Len(requests) : BodyReturns(r, env)

\* a process with a pool out of pools that is about to issue n requests
InitKeys(pools, n) ==
    /\ SYSTEM_PROMPT = "persona"
    /\ JUDGE_BATTLE_PROMPT = "rubric"
    /\ MODELS = <<"ma", "mb", "mc">>
    /\ TEST_QUESTIONS = <<Question("greetings", "hey")>>
    /\ response_file = NoFile
    /\ battle_file = NoFile
    /\ response_cache = NewCache
    /\ battle_cache = NewCache
    /\ pc = "keys"
    /\ semaphore = [value |-> GateCapacity, waiters |-> << >>]
    /\ tasks = << >>
    /\ results = EmptyDict
    /\ battle_tasks = << >>
    /\ results_battles = << >>
    /\ battle_stats = EmptyDict
    /\ send_calls = EmptyDict
    /\ judge_calls = EmptyDict
    /\ prev = [unchanged |-> FALSE, entries |-> EmptyDict]
    /\ set_during = [responses |-> {}, battles |-> {}]
    /\ verdict_by = EmptyDict
    /\ persisted_under = <<"", "">>
    /\ instance = ""
    /\ lock = 0
    /\ threads = << >>
    /\ ops_left = 0
    /\ lin = EmptyDict
    /\ keys \in {KeyManager_init(names) : names \in pools}
    /\ requests = [r \in 1..n |-> NewRequest]
    /\ elo_ratings = EmptyDict
    /\ category_elos = EmptyDict
    /\ logging = FALSE
    /\ completed = << >>
    /\ str_hash = EmptyDict
    /\ fallbacks = [now |-> EmptyDict, before |-> EmptyDict]

\* SpecKeys: any pool of one to MaxKeys keys, any endpoint
Pools == SeqsUpTo(KeyNames, MaxKeys) \ {<< >>}

AnyEndpoint == [k \in KeyNames |-> [post |-> PostOutcomes, body |-> BodyOutcomes]]

InitAnyPool == InitKeys(Pools, MaxRequests)

NextKeys == KeysStep(AnyEndpoint)

SpecKeys == InitAnyPool /\ [][NextKeys]_vars

\* SpecTwoKeys: two keys in either order; every attempt with Failing fails
\* (a status, an exception, or a 200 whose body cannot be read), every
\* attempt with Healthy succeeds
Failing == "ka"

Healthy == "kb"

TwoKeyEndpoint ==
    [k \in KeyNames |->
        IF k = Failing
        THEN [post |-> PostOutcomes, body |-> {b \in BodyOutcomes : b.exc # ""}]
        ELSE [post |-> {o \in PostOutcomes : o.status = 200},
              body |-> {b \in BodyOutcomes : b.exc = "" /\ b.choices}]]

TwoKeyRequests == 3

InitTwoKeys == InitKeys({<<Failing, Healthy>>, <<Healthy, Failing>>}, TwoKeyRequests)

NextTwoKeys == KeysStep(TwoKeyEndpoint)

SpecTwoKeys == InitTwoKeys /\ [][NextTwoKeys]_vars

(***************************************************************************)
(* SpecElo: phase 3 as a function of the model list and of the verdicts    *)
(* gather returned: the win/loss counts (756-762) and the two Elo folds    *)
(* (772-807), applied to every sequence of up to MaxVerdicts verdicts on   *)
(* the pairs of two or three models in one or two categories.              *)
(***************************************************************************)
MaxVerdicts == 2

EloModels == {<<"ma", "mb">>, <<"ma", "mb", "mc">>}

EloQuestions ==
    { <<Question("greetings", "hey")>>,
      <<Question("flirty", "hey"), Question("greetings", "hey")>> }

\* what run_battle can return for the pairs of the models and the categories of
\* the questions
VerdictTuples(models, questions) ==
    LET matchups == Combinations2(models)
    IN  { <<matchups[k][1], matchups[k][2], w, questions[q].category, FALSE>> :
            k \in 1..Len(matchups), w \in {"model_a", "model_b"}, q \in 1..Len(questions) }

Phase3(models, questions, rb) ==
    /\ pc = "phase3"
    /\ MODELS' = models
    /\ TEST_QUESTIONS' = questions
    /\ results_battles' = rb
    /\ battle_stats' = FoldStats([m \in {models[i] : i \in 1..Len(models)} |->
                                     [wins |-> 0, losses |-> 0]], rb)
    /\ elo_ratings' = GlobalElo(models, rb)
    /\ category_elos' = CategoryElos(models, questions, rb)
    /\ pc' = "done"
    /\ UNCHANGED <<SYSTEM_PROMPT, JUDGE_BATTLE_PROMPT, files, caches, semaphore, tasks,
                   results, battle_tasks, history, threading, pool, observed, hashing>>

NextElo ==
    \E models \in EloModels, questions \in EloQuestions :
        \E rb \in SeqsUpTo(VerdictTuples(models, questions), MaxVerdicts) :
            Phase3(models, questions, rb)

SpecElo == InitRun("phase3", FALSE) /\ [][NextElo]_vars

(***************************************************************************)
(* SpecLive: the run without the operator's interrupt, under the           *)
(* assumptions that every request returns (a reply, an error or its 45 s   *)
(* timeout, lines 500 and 537) and that the event loop runs a coroutine    *)
(* that is ready: a step of the run that stays possible is taken.          *)
(***************************************************************************)
Advance ==
    \/ Phase1Step(SendOutcomes)
    \/ Phase2Step(PromptReplies)
    \/ FinishPhase2

NextLive ==
    \/ \E cfg \in Configs : StartProcess(cfg)
    \/ Phase1Step(SendOutcomes)
    \/ Phase2Step(PromptReplies)
    \/ FinishPhase2

SpecLive == Init /\ [][NextLive]_vars /\ WF_vars(Advance)

(***************************************************************************)
(* SpecTasks: the battle task list of lines 658-676 for every list of two  *)
(* to four distinct model identifiers and several question sets.           *)
(***************************************************************************)
TaskModels ==
    {ms \in SeqsUpTo({"ma", "mb", "mc", "md"}, 4) :
        /\ Len(ms) >= 2
        /\ \A i, j \in 1..Len(ms) : i # j => ms[i] # ms[j]}

TaskQuestions ==
    { <<Question("greetings", "hey")>>,
      <<Question("greetings", "hey"), Question("greetings", "yo")>>,
      <<Question("greetings", "hey"), Question("flirty", "hey")>>,
      <<Question("greetings", "hey"), Question("flirty", "hey"), Question("greetings", "yo")>> }

BuildTasks(models, questions) ==
    /\ pc = "matchups"
    /\ MODELS' = models
    /\ TEST_QUESTIONS' = questions
    /\ battle_tasks' = BattleTaskList(models, questions)
    /\ battle_stats' = [m \in {models[i] : i \in 1..Len(models)} |-> [wins |-> 0, losses |-> 0]]
    /\ pc' = "phase2"
    /\ UNCHANGED <<SYSTEM_PROMPT, JUDGE_BATTLE_PROMPT, files, caches, semaphore, tasks,
                   results, results_battles, history, threading, pool, phase3, observed,
                   hashing>>

NextTasks == \E models \in TaskModels, questions \in TaskQuestions : BuildTasks(models, questions)

SpecTasks == InitRun("matchups", FALSE) /\ [][NextTasks]_vars

(***************************************************************************)
(* SpecStartup: main with its --category argument and the key string of    *)
(* the environment.  The module is imported first (the caches load, the    *)
(* key manager splits the key string); main returns at 1025-1027 when the  *)
(* argument names no category of the questions file, and run_benchmark     *)
(* returns at 560-562 when the key manager holds no key; otherwise the     *)
(* process runs on the questions of the category, or on all of them        *)
(* without the argument (an empty argument counts as none, line 1023).     *)
(***************************************************************************)
\* the process ends at one of the two early returns
Refuse(cfg, at) ==
    /\ pc \in {"off", "done", "no_keys", "unknown_category"}
    /\ SYSTEM_PROMPT' = cfg.system_prompt
    /\ JUDGE_BATTLE_PROMPT' = cfg.judge_prompt
    /\ MODELS' = cfg.models
    /\ TEST_QUESTIONS' = cfg.questions
    /\ response_cache' = ResponseCache_load(response_file, cfg.system_prompt)
    /\ battle_cache' = BattleCache_load(battle_file, cfg.system_prompt, cfg.judge_prompt)
    /\ pc' = at
    /\ semaphore' = [value |-> GateCapacity, waiters |-> << >>]
    /\ tasks' = << >>
    /\ results' = EmptyDict
    /\ battle_tasks' = << >>
    /\ results_battles' = << >>
    /\ battle_stats' = EmptyDict
    /\ send_calls' = EmptyDict
    /\ judge_calls' = EmptyDict
    /\ prev' = [unchanged |-> FALSE, entries |-> EmptyDict]
    /\ set_during' = [responses |-> {}, battles |-> {}]
    /\ verdict_by' = [k \in (DOMAIN verdict_by) \cap (DOMAIN battle_file.entries) |->
                          verdict_by[k]]
    /\ elo_ratings' = EmptyDict
    /\ category_elos' = EmptyDict
    /\ completed' = << >>
    /\ UNCHANGED <<files, persisted_under, logging, threading, pool, hashing>>

\* args.category names no key of TEST_QUESTIONS_BY_CATEGORY
UnknownCategory(cfg, category) ==
    /\ category # None
    /\ category[1] # ""
    /\ \A i \in 1..Len(cfg.questions) : cfg.questions[i].category # category[1]

\* TEST_QUESTIONS as main leaves it
Requested(cfg, category) ==
    IF category = None \/ category[1] = ""
    THEN cfg
    ELSE [cfg EXCEPT !.questions = SelectSeq(@, LAMBDA q : q.category = category[1])]

\* the mutant of Main: neither check is made
MainUnchecked(cfg, names, category) == StartProcess(Requested(cfg, category))

Main(cfg, names, category) ==
    IF UnknownCategory(cfg, category)
    THEN Refuse(cfg, "unknown_category")
    ELSE IF KeyManager_init(names) = << >>
    THEN Refuse(Requested(cfg, category), "no_keys")
    ELSE StartProcess(Requested(cfg, category))

StartupConfigs == {cfg \in RespConfigs : cfg.system_prompt = "persona"}

StartupPools == {<< >>, <<"ka">>}

StartupCategories == {None, <<"">>, <<"greetings">>, <<"nope">>}

NextStartup ==
    \/ \E cfg \in StartupConfigs, names \in StartupPools, category \in StartupCategories :
          Main(cfg, names, category)
    \/ Phase1Step(RespOutcomes)
    \/ FinishPhase2
    \/ Interrupt

SpecStartup == Init /\ [][NextStartup]_vars

(***************************************************************************)
(* Properties.                                                             *)
(***************************************************************************)
Categories == {"greetings", "flirty"}

QuestionTexts == {"hey", "yo"}

Verdicts == {"model_a", "model_b"}

TaskKey(t) == ResponseKey(t.model, t.question)

BattleTaskKey(t) == BattleKey(t.judge, t.model_a, t.model_b, t.category)

InFlight(ts) == Cardinality({i \in 1..Len(ts) : ts[i].pc = "inflight"})

\* C1 (SpecResp): in a process that follows a normally ended process with the
\* same persona text, no request is sent, and every finished response task
\* took its response, time and usage from the cache, equal to the entry the
\* previous process left on disk for that (model, question).
C1_SecondRunFromCache ==
    prev.unchanged =>
        /\ DOMAIN send_calls = {}
        /\ \A i \in 1..Len(tasks) :
              /\ tasks[i].pc \in {"new", "waiting", "done"}
              /\ tasks[i].pc = "done" =>
                    /\ tasks[i].cached
                    /\ TaskKey(tasks[i]) \in DOMAIN prev.entries
                    /\ tasks[i].data.response = prev.entries[TaskKey(tasks[i])].response
                    /\ tasks[i].data.time = prev.entries[TaskKey(tasks[i])].elapsed
                    /\ tasks[i].data.usage = prev.entries[TaskKey(tasks[i])].usage

C1_Witness ==
    /\ prev.unchanged
    /\ pc = "done"
    /\ Len(tasks) > 0
    /\ \A i \in 1..Len(tasks) : tasks[i].pc = "done" /\ tasks[i].cached

\* C2 (SpecResp): right after the response cache was loaded (no set yet in this
\* process) from a file whose stored fingerprint is not the fingerprint of the
\* current persona text, the cache holds no entry and every get returns None.
C2_StaleFingerprintEmptiesCache ==
    ( /\ pc = "phase1"
      /\ set_during.responses = {}
      /\ response_file.exists
      /\ response_file.hash # ResponseHash(SYSTEM_PROMPT) )
    => /\ DOMAIN response_cache.cache = {}
       /\ \A m \in ModelIds, q \in QuestionTexts :
             ResponseCache_get(response_cache, m, q) = None

C2_Witness ==
    /\ pc = "phase1"
    /\ set_during.responses = {}
    /\ response_file.exists
    /\ response_file.hash # ResponseHash(SYSTEM_PROMPT)
    /\ DOMAIN response_file.entries # {}
    /\ \E i \in 1..Len(tasks) : tasks[i].pc = "inflight"

\* C3 (SpecPrompts), as claimed: right after the battle cache was loaded (no
\* set yet in this process), it is empty when the persona text or the rubric
\* text differs from the texts under which the file was written, and holds
\* every persisted entry when both are unchanged.
C3_BattleCacheFollowsTexts ==
    ( /\ pc \in {"phase1", "phase2"}
      /\ set_during.battles = {}
      /\ battle_file.exists )
    => IF persisted_under = <<SYSTEM_PROMPT, JUDGE_BATTLE_PROMPT>>
       THEN battle_cache.cache = battle_file.entries
       ELSE DOMAIN battle_cache.cache = {}

\* C4 (Spec): in every reachable state of the battle cache, get reads the same
\* entry for (judge, A, B, cat) and (judge, B, A, cat), and set with either
\* order of the pair leaves the same cache and file.
C4_KeyOrderInvariant ==
    \A j \in ModelIds, c \in Categories, a \in ModelIds :
      \A b \in {m \in ModelIds : StrRank(m) >= StrRank(a)} :
        /\ BattleCache_get(battle_cache, j, a, b, c) = BattleCache_get(battle_cache, j, b, a, c)
        /\ \A w \in Verdicts :
              BattleCache_set(battle_cache, battle_file, SYSTEM_PROMPT, JUDGE_BATTLE_PROMPT,
                              j, a, b, c, w)
              = BattleCache_set(battle_cache, battle_file, SYSTEM_PROMPT, JUDGE_BATTLE_PROMPT,
                                j, b, a, c, w)

C4_Witness ==
    \E i \in 1..Len(battle_tasks) :
        LET t == battle_tasks[i]
        IN  /\ t.pc = "done"
            /\ ~t.cached
            /\ t.model_a # t.model_b
            /\ BattleCache_get(battle_cache, t.judge, t.model_b, t.model_a, t.category)
               = <<t.winner>>

\* C5 (Spec), as claimed: a battle that takes its verdict from the cache names
\* as winner the model that won the battle which cached the verdict.
C5_CachedVerdictSameModel ==
    \A i \in 1..Len(battle_tasks) :
        LET t == battle_tasks[i]
        IN  (t.pc = "done" /\ t.cached /\ BattleTaskKey(t) \in DOMAIN verdict_by)
            => WinningModel(t.model_a, t.model_b, t.winner) = verdict_by[BattleTaskKey(t)]

\* C6 (SpecResp), as claimed: within one process at most one request (one call
\* of query_model_async) is issued per response-cache key.
C6_AtMostOneSendPerKey ==
    \A k \in DOMAIN send_calls : send_calls[k] <= 1

\* C7 (Spec): in both phases the tasks holding a permit are those with a
\* request in flight, they are at most GateCapacity, and the free permits plus
\* the held ones are always GateCapacity (a finished task holds none).
C7_GateBound ==
    LET held == InFlight(tasks) + InFlight(battle_tasks)
    IN  /\ held <= GateCapacity
        /\ semaphore.value >= 0
        /\ semaphore.value + held = GateCapacity
        /\ pc = "done" => semaphore.value = GateCapacity

C7_Witness ==
    /\ pc = "phase2"
    /\ InFlight(battle_tasks) = GateCapacity
    /\ \E i \in 1..Len(battle_tasks) : battle_tasks[i].pc = "waiting"

\* C8 (Spec): whenever a battle task exists or a judge request was issued,
\* every response task is done and the response table holds, for every model,
\* the result of each of its tasks.
C8_NoBattleBeforeDrain ==
    (battle_tasks # << >> \/ DOMAIN judge_calls # {})
    => /\ \A i \in 1..Len(tasks) : tasks[i].pc = "done"
       /\ \A m \in DOMAIN results :
             /\ Len(results[m].responses) = Len(TEST_QUESTIONS)
             /\ \A k \in 1..Len(results[m].responses) : results[m].responses[k] # NoData

C8_Witness ==
    /\ \E i \in 1..Len(battle_tasks) : battle_tasks[i].pc = "inflight"
    /\ \A i \in 1..Len(tasks) : tasks[i].pc = "done"

\* C10 (Spec): once phase 1 has ended the response cache is not dirty and the
\* response file holds, under the current fingerprint, the whole cache and so
\* every entry set during the phase; once phase 2 has ended the same holds of
\* the battle cache and its file.
C10_PhaseEndPersisted ==
    /\ pc \in {"phase2", "done"} =>
          /\ ~response_cache.dirty
          /\ response_file.exists
          /\ response_file.hash = ResponseHash(SYSTEM_PROMPT)
          /\ response_file.entries = response_cache.cache
          /\ set_during.responses \subseteq DOMAIN response_file.entries
    /\ pc = "done" =>
          /\ ~battle_cache.dirty
          /\ battle_file.exists
          /\ battle_file.hash = CombinedHash(SYSTEM_PROMPT, JUDGE_BATTLE_PROMPT)
          /\ battle_file.entries = battle_cache.cache
          /\ set_during.battles \subseteq DOMAIN battle_file.entries

C10_Witness ==
    /\ pc = "done"
    /\ set_during.responses # {}
    /\ set_during.battles # {}
    /\ response_cache.unsaved = 0
    /\ battle_cache.unsaved = 0

\* C9 (SpecThreads): under every interleaving of the threads that call get, set
\* and save_if_dirty on one cache instance, a get that has returned gave what
\* the sets assigned before it left under its key (absent if none, else the
\* last value assigned, which is a value some set wrote for that key), and once
\* every set has returned the dict holds exactly the written keys, each with
\* the value of the last set on it.
C9_GetSetLinearizable ==
    pc = "threads" =>
        /\ \A t \in 1..NumThreads :
              (threads[t].op.kind = "get" /\ threads[t].pc = "idle") =>
                  /\ threads[t].got = threads[t].expect
                  /\ \/ threads[t].got = None
                     \/ \E n \in 1..Len(Written(OpKey(threads[t].op))) :
                           threads[t].got = <<Written(OpKey(threads[t].op))[n]>>
        /\ (\A t \in 1..NumThreads :
               threads[t].op.kind = "set" => threads[t].pc = "idle") =>
                  /\ DOMAIN TheCache.cache = DOMAIN lin
                  /\ \A k \in DOMAIN lin : <<TheCache.cache[k]>> = LastWritten(k)

\* two sets of different values on one key have returned, the first of them
\* overwritten, and a get of another thread has returned a value
C9_Witness ==
    /\ pc = "threads"
    /\ \E t \in 1..NumThreads, u \in 1..NumThreads :
          /\ t # u
          /\ threads[t].pc = "idle" /\ threads[t].op.kind = "get"
          /\ threads[t].got # None
          /\ threads[u].pc = "idle" /\ threads[u].op.kind = "set"
          /\ OpKey(threads[u].op) = OpKey(threads[t].op)
          /\ Len(Written(OpKey(threads[u].op))) >= 2
          /\ \E n \in 1..Len(Written(OpKey(threads[u].op))) :
                Written(OpKey(threads[u].op))[n] # threads[u].op.value[1]

\* C11 (Spec), as claimed: when no process runs (none started yet, or the last
\* one was interrupted), every key the last process wrote with set is in the
\* file of its cache, written under the fingerprint of that process.
C11_InterruptKeepsEntries ==
    pc = "off" =>
        /\ set_during.responses # {} =>
              /\ response_file.hash = ResponseHash(SYSTEM_PROMPT)
              /\ set_during.responses \subseteq DOMAIN response_file.entries
        /\ set_during.battles # {} =>
              /\ battle_file.hash = CombinedHash(SYSTEM_PROMPT, JUDGE_BATTLE_PROMPT)
              /\ set_during.battles \subseteq DOMAIN battle_file.entries

SentinelEntry == [response |-> Sentinel.response, elapsed |-> Sentinel.elapsed,
                  usage |-> Sentinel.usage]

\* a step of process_question in which task i passes the gate and looks its key up
LooksUp(i) ==
    /\ pc = "phase1" /\ pc' = "phase1"
    /\ Len(tasks') = Len(tasks)
    /\ tasks[i].pc \in {"new", "waiting"}
    /\ tasks'[i].pc \in {"inflight", "done"}

\* a step of process_question in which the request of task i returns
Returns(i) ==
    /\ pc = "phase1" /\ pc' = "phase1"
    /\ Len(tasks') = Len(tasks)
    /\ tasks[i].pc = "inflight"
    /\ tasks'[i].pc = "done"

SentinelResult == <<[response |-> Sentinel.response, elapsed |-> Sentinel.elapsed,
                     usage |-> Sentinel.usage]>>

\* the call made an attempt in this step: it picked a key and posted with it
Attempts(r) == Len(requests'[r].attempts) > Len(requests[r].attempts)

\* C13 (SpecKeys): no call of query_model_async ends by raising, whatever the
\* posts and the reads of the replies do (statuses, timeouts, transport
\* errors, replies that cannot be decoded); a call that has returned after
\* every attempt failed tried every key of the pool and returned the sentinel
\* ("Error: All keys failed", 0, {}), and any other returned call failed on
\* all attempts but its last.
C13_SendNeverRaises ==
    pc = "keys" =>
        \A r \in 1..Len(requests) :
            /\ requests[r].pc # "raised"
            /\ requests[r].pc = "returned" =>
                  IF requests[r].failed = Len(requests[r].attempts)
                  THEN /\ requests[r].result = SentinelResult
                       /\ requests[r].tried = {keys[i].key : i \in 1..Len(keys)}
                  ELSE /\ requests[r].failed = Len(requests[r].attempts) - 1
                       /\ requests[r].result # SentinelResult

\* a call has returned the sentinel after two failed attempts, one of them a
\* 200 whose body could not be read
C13_Witness ==
    \E r \in 1..Len(requests) :
        /\ requests[r].pc = "returned"
        /\ requests[r].result = SentinelResult
        /\ requests[r].failed = 2
        /\ requests[r].body_failed

\* C14 (SpecKeys): a call never has more attempts than the pool has keys and
\* tries no key twice; each attempt is made with a key not tried before by the
\* call whose failure count, at that moment, is the least among the keys the
\* call has not tried; a call that has returned makes no further attempt, and
\* a successful attempt is the last one.
C14_EachKeyOnceBestFirst ==
    /\ [](pc = "keys" =>
            \A r \in 1..Len(requests) :
                /\ Len(requests[r].attempts) <= Len(keys)
                /\ \A m \in 1..Len(requests[r].attempts), n \in 1..Len(requests[r].attempts) :
                      requests[r].attempts[m] = requests[r].attempts[n] => m = n
                /\ requests[r].tried
                   = {requests[r].attempts[n] : n \in 1..Len(requests[r].attempts)}
                /\ requests[r].failed >= Len(requests[r].attempts) - 1)
    /\ [][\A r \in 1..Len(requests) :
            /\ requests[r].pc = "returned" => requests'[r] = requests[r]
            /\ Attempts(r) =>
                  /\ Len(requests'[r].attempts) = Len(requests[r].attempts) + 1
                  /\ requests'[r].failed = Len(requests[r].attempts)
                  /\ requests'[r].key \notin requests[r].tried
                  /\ requests'[r].key = requests'[r].attempts[Len(requests'[r].attempts)]
                  /\ \E i \in 1..Len(keys') :
                        /\ keys'[i].key = requests'[r].key
                        /\ \A j \in 1..Len(keys') :
                              keys'[j].key \notin requests[r].tried =>
                                  keys'[j].failure_count >= keys'[i].failure_count]_vars

\* a call went through both keys of a pool, the second listed first, and
\* succeeded on its last attempt
C14_Witness ==
    \E r \in 1..Len(requests) :
        /\ Len(keys) = 2
        /\ requests[r].pc = "returned"
        /\ requests[r].attempts = <<keys[2].key, keys[1].key>>
        /\ requests[r].failed = 1
        /\ requests[r].result # SentinelResult

CountOf(ks, key_str) == ks[CHOOSE i \in FirstMatch(ks, key_str) : TRUE].failure_count

\* what C15 says of get_best_key(exclude) on the pool ks
BestKeyContract(ks, exclude) ==
    LET best == KeyManager_get_best_key(ks, exclude)
    IN  /\ best = None <=> (ks = << >> \/ \A i \in 1..Len(ks) : ks[i].key \in exclude)
        /\ best # None =>
              /\ best[1] \notin exclude
              /\ \E i \in 1..Len(ks) :
                    /\ ks[i].key = best[1]
                    /\ \A j \in 1..Len(ks) :
                          ks[j].key \notin exclude =>
                              ks[j].failure_count >= ks[i].failure_count

\* C15 (SpecKeys): on every reachable pool, and on the empty pool, and for
\* every set of excluded keys, get_best_key returns None exactly when the pool
\* is empty or all its keys are excluded, and otherwise a key that is not
\* excluded and has the least failure count among the keys not excluded; the
\* step of a call that consults it to pick its first key changes no count.
C15_BestKeyContract ==
    /\ [](pc = "keys" =>
            \A exclude \in SUBSET KeyNames :
                /\ BestKeyContract(keys, exclude)
                /\ BestKeyContract(<< >>, exclude))
    /\ [][\A r \in 1..Len(requests) :
            (requests[r].pc = "new" /\ requests'[r].pc # "new") => keys' = keys]_vars

\* a pool whose first key has failed more than its second: the second is the
\* best, the first is the best once the second is excluded, none is when both are
C15_Witness ==
    /\ pc = "keys"
    /\ Len(keys) = 2
    /\ keys[1].key # keys[2].key
    /\ keys[1].failure_count > keys[2].failure_count
    /\ KeyManager_get_best_key(keys, {}) = <<keys[2].key>>
    /\ KeyManager_get_best_key(keys, {keys[2].key}) = <<keys[1].key>>
    /\ KeyManager_get_best_key(keys, {keys[1].key, keys[2].key}) = None
    /\ \E r \in 1..Len(requests) : requests[r].attempts = <<keys[2].key>>

\* C16 (SpecKeys): under every interleaving of the calls, every failure count
\* is a natural number, and record_success on any key of the pool lowers the
\* count of that key by one when it is positive, leaves it at zero otherwise,
\* and leaves the other counts alone.
C16_ScoreNonNegative ==
    pc = "keys" =>
        /\ \A i \in 1..Len(keys) : keys[i].failure_count \in Nat
        /\ \A i \in 1..Len(keys) :
              LET after == KeyManager_record_success(keys, keys[i].key, 1)
              IN  /\ Len(after) = Len(keys)
                  /\ \A j \in 1..Len(keys) :
                        /\ after[j].key = keys[j].key
                        /\ after[j].failure_count =
                              IF j \in FirstMatch(keys, keys[i].key)
                              THEN (IF keys[j].failure_count > 0
                                    THEN keys[j].failure_count - 1 ELSE 0)
                              ELSE keys[j].failure_count

\* on a pool of one key, a call failed and a later one got a 200: the count
\* went up to one and back to zero; a further success would leave it at zero
C16_Witness ==
    /\ pc = "keys"
    /\ Len(keys) = 1
    /\ keys[1].failure_count = 0
    /\ \E r \in 1..Len(requests), q \in 1..Len(requests) :
          /\ requests[r].pc = "returned" /\ requests[r].failed = 1
          /\ requests[q].pc = "returned" /\ requests[q].failed = 0
          /\ requests[q].attempts # << >>

\* C17 (SpecKeys): record_failure on any key of the pool raises the count of
\* that key by exactly one, with is_rate_limit true or false alike, and leaves
\* the other counts alone; and every step in which an attempt of a call is
\* recorded as failed (429, another status, an exception) changes the counts
\* in that way and no other.
C17_FailureAddsOne ==
    /\ [](pc = "keys" =>
            \A i \in 1..Len(keys), is_rate_limit \in BOOLEAN :
                LET after == KeyManager_record_failure(keys, keys[i].key, is_rate_limit)
                IN  /\ Len(after) = Len(keys)
                    /\ \A j \in 1..Len(keys) :
                          /\ after[j].key = keys[j].key
                          /\ after[j].failure_count =
                                keys[j].failure_count
                                + (IF j \in FirstMatch(keys, keys[i].key) THEN 1 ELSE 0))
    /\ [][\A r \in 1..Len(requests) :
            requests'[r].failed # requests[r].failed =>
                /\ requests'[r].failed = requests[r].failed + 1
                /\ Len(keys') = Len(keys)
                /\ \A j \in 1..Len(keys) :
                      /\ keys'[j].key = keys[j].key
                      /\ keys'[j].failure_count =
                            keys[j].failure_count
                            + (IF j \in FirstMatch(keys, requests[r].key) THEN 1 ELSE 0)]_vars

\* a call failed on both keys of a pool of two different keys, once after a
\* 200, and each count is one
C17_Witness ==
    /\ pc = "keys"
    /\ Len(keys) = 2
    /\ keys[1].key # keys[2].key
    /\ keys[1].failure_count = 1
    /\ keys[2].failure_count = 1
    /\ \E r \in 1..Len(requests) : requests[r].failed = 2 /\ requests[r].body_failed

\* a call picks Failing while Healthy is not among the keys it has tried
StrayPick(r) ==
    /\ Attempts(r)
    /\ requests'[r].key = Failing
    /\ Healthy \notin requests[r].tried

\* C18 (SpecTwoKeys), as claimed: get_best_key never gives a call the failing
\* key while the healthy key is not excluded, however many calls were made
\* before.
C18_NeverFailingWhileHealthy == [][\A r \in 1..Len(requests) : ~StrayPick(r)]_vars

\* C18 (SpecTwoKeys), amended: the count of the healthy key is always zero; a
\* call is given the failing key while the healthy one is not excluded only
\* when the count of the failing key is zero and it is listed before the
\* healthy key; whenever the count of the failing key is positive,
\* get_best_key returns the healthy key unless it is excluded.
C18_FailingOnlyAtZero ==
    /\ [](pc = "keys" =>
            /\ CountOf(keys, Healthy) = 0
            /\ CountOf(keys, Failing) > 0 =>
                  /\ KeyManager_get_best_key(keys, {}) = <<Healthy>>
                  /\ KeyManager_get_best_key(keys, {Failing}) = <<Healthy>>)
    /\ [][\A r \in 1..Len(requests) :
            StrayPick(r) =>
                /\ CountOf(keys', Failing) = 0
                /\ keys'[1].key = Failing]_vars

\* the failing key is listed first and has failed; a call made after that was
\* given the healthy key at once and succeeded
C18_Witness ==
    /\ pc = "keys"
    /\ keys[1].key = Failing
    /\ CountOf(keys, Failing) > 0
    /\ \E r \in 1..Len(requests), q \in 1..Len(requests) :
          /\ requests[r].pc = "returned" /\ requests[r].attempts = <<Failing, Healthy>>
          /\ requests[q].pc = "returned" /\ requests[q].attempts = <<Healthy>>

\* C19 (Spec): the judge of every battle task is a model of the list other
\* than the two contestants of the task.
C19_JudgeNotContestant ==
    \A i \in 1..Len(battle_tasks) :
        /\ battle_tasks[i].judge \notin {battle_tasks[i].model_a, battle_tasks[i].model_b}
        /\ \E m \in 1..Len(MODELS) : MODELS[m] = battle_tasks[i].judge

\* the battle tasks of three models exist: each pair is there with the third
\* model as its judge, and each model judges once
C19_Witness ==
    /\ pc = "phase2"
    /\ Len(battle_tasks) = 3
    /\ {battle_tasks[i].judge : i \in 1..Len(battle_tasks)}
       = {MODELS[m] : m \in 1..Len(MODELS)}

\* C20 (Spec): every battle task that finished on a cache miss has its verdict
\* in the battle cache under its key when it returns, whether the length
\* heuristic or the judge's reply (parsed or fallen back to the default)
\* produced it; no battle takes the no-common-questions path, because every
\* model answered every question of every judged category; and in a process
\* that follows a normally ended one no judge request is issued, every
\* finished battle having taken its verdict from the cache.
C20_MissVerdictIsCached ==
    /\ \A i \in 1..Len(battle_tasks) :
          /\ Common(battle_tasks[i]) # << >>
          /\ (battle_tasks[i].pc = "done" /\ ~battle_tasks[i].cached) =>
                /\ BattleTaskKey(battle_tasks[i]) \in DOMAIN battle_cache.cache
                /\ battle_cache.cache[BattleTaskKey(battle_tasks[i])] = battle_tasks[i].winner
                /\ BattleCache_get(battle_cache, battle_tasks[i].judge,
                                   battle_tasks[i].model_b, battle_tasks[i].model_a,
                                   battle_tasks[i].category) = <<battle_tasks[i].winner>>
    /\ prev.unchanged =>
          /\ DOMAIN judge_calls = {}
          /\ \A i \in 1..Len(battle_tasks) :
                /\ battle_tasks[i].pc \in {"new", "waiting", "done"}
                /\ battle_tasks[i].pc = "done" => battle_tasks[i].cached

\* all battles of a process finished on a miss, one by the length heuristic
\* (no judge request for its key) and one by a judge reply
C20_Witness ==
    /\ pc = "done"
    /\ \A i \in 1..Len(battle_tasks) : ~battle_tasks[i].cached
    /\ \E i \in 1..Len(battle_tasks) : BattleTaskKey(battle_tasks[i]) \notin DOMAIN judge_calls
    /\ \E i \in 1..Len(battle_tasks) : BattleTaskKey(battle_tasks[i]) \in DOMAIN judge_calls

\* the judge replies in which the parse finds no winner string: no {...} span,
\* a span json.loads rejects, or a "winner" field that is not a string
Unparsable(reply) == ~reply.span \/ ~reply.loads \/ (reply.has_winner /\ ~reply.is_str)

\* C21 (SpecJudged): a battle whose judge request returned is finished with a verdict
\* in {model_a, model_b}, stored under its key, whatever the reply was; the
\* verdict is model_a when the reply holds no {...} span (the sentinel text of
\* an exhausted send is such a reply), when json.loads rejects the span, or when
\* the winner field is not a string; no battle ends in any other way.
C21_JudgeVerdictOrDefault ==
    /\ SentinelReply \in JudgeReplies
    /\ Unparsable(SentinelReply)
    /\ \A i \in 1..Len(battle_tasks) :
          /\ battle_tasks[i].pc \in {"new", "waiting", "inflight", "done"}
          /\ battle_tasks[i].pc = "done" => battle_tasks[i].winner \in Verdicts
          /\ battle_tasks[i].reply # << >> =>
                /\ battle_tasks[i].pc = "done"
                /\ ~battle_tasks[i].cached
                /\ Count(judge_calls, BattleTaskKey(battle_tasks[i])) = 1
                /\ battle_tasks[i].winner = ParseWinner(battle_tasks[i].reply[1])
                /\ Unparsable(battle_tasks[i].reply[1]) => battle_tasks[i].winner = "model_a"
                /\ BattleCache_get(battle_cache, battle_tasks[i].judge, battle_tasks[i].model_a,
                                   battle_tasks[i].model_b, battle_tasks[i].category)
                   = <<battle_tasks[i].winner>>

\* three battles went to the judge: one got the sentinel text, one a span that
\* is not JSON, one a winner field that is not a string; all three ended with
\* model_a
C21_Witness ==
    /\ pc = "done"
    /\ Len(battle_tasks) = 3
    /\ battle_tasks[1].reply = <<SentinelReply>>
    /\ battle_tasks[2].reply # << >>
    /\ battle_tasks[2].reply[1].span /\ ~battle_tasks[2].reply[1].loads
    /\ battle_tasks[3].reply # << >>
    /\ battle_tasks[3].reply[1].has_winner /\ ~battle_tasks[3].reply[1].is_str
    /\ \A i \in 1..3 : battle_tasks[i].winner = "model_a"

\* len_x > 160 of line 706 for a contestant of battle task t: its average
\* response length over the common questions is above the threshold
OverThreshold(model_id, t) ==
    SumLen(ResMap(results[model_id].responses, t.category), Common(t))
    > LengthThreshold * Len(Common(t))

\* a battle task that looked its key up and missed
Missed(t) == t.pc = "inflight" \/ (t.pc = "done" /\ ~t.cached)

\* texts of 3, 160 and 161 characters
HeuristicTexts == {"sup", Text40 \o Text40 \o Text40 \o Text40, LongText}

\* C22 (Spec): a battle that missed the cache and in which exactly one
\* contestant's average response length over the common questions is above 160
\* is finished with the other contestant as winner, and no judge request was
\* sent for it; an average of exactly 160 is not above the threshold.
C22_OnlyLongOneLoses ==
    /\ \A i \in 1..Len(battle_tasks) :
          LET t == battle_tasks[i]
          IN  (Missed(t) /\ OverThreshold(t.model_a, t) # OverThreshold(t.model_b, t)) =>
                 /\ t.pc = "done"
                 /\ t.winner = IF OverThreshold(t.model_a, t) THEN "model_b" ELSE "model_a"
                 /\ BattleTaskKey(t) \notin DOMAIN judge_calls
                 /\ t.reply = << >>
    /\ \A ta \in HeuristicTexts, tb \in HeuristicTexts :
          (Len(ta) > LengthThreshold) # (Len(tb) > LengthThreshold) =>
             LengthWinner([q \in {"hey"} |-> ta], [q \in {"hey"} |-> tb], <<"hey">>)
             = IF Len(ta) > LengthThreshold THEN "model_b" ELSE "model_a"

\* two battles were decided by length without the judge: in one only model_a
\* was over the threshold, in the other only model_b
C22_Witness ==
    /\ \E i \in 1..Len(battle_tasks) :
          /\ battle_tasks[i].pc = "done" /\ ~battle_tasks[i].cached
          /\ OverThreshold(battle_tasks[i].model_a, battle_tasks[i])
          /\ ~OverThreshold(battle_tasks[i].model_b, battle_tasks[i])
          /\ battle_tasks[i].winner = "model_b"
          /\ BattleTaskKey(battle_tasks[i]) \notin DOMAIN judge_calls
    /\ \E i \in 1..Len(battle_tasks) :
          /\ battle_tasks[i].pc = "done" /\ ~battle_tasks[i].cached
          /\ ~OverThreshold(battle_tasks[i].model_a, battle_tasks[i])
          /\ OverThreshold(battle_tasks[i].model_b, battle_tasks[i])
          /\ battle_tasks[i].winner = "model_a"
          /\ BattleTaskKey(battle_tasks[i]) \notin DOMAIN judge_calls

\* the sum of a contestant's response lengths over the common questions of
\* battle task t (the average of lines 704-705 times len(common))
SumOver(model_id, t) ==
    SumLen(ResMap(results[model_id].responses, t.category), Common(t))

\* C23 (SpecLengths): a battle that missed the cache and in which both
\* contestants' average response lengths over the common questions are above
\* 160 and differ is finished with the contestant of the shorter average as
\* winner, whichever of the two is model_a, and no judge request was sent for
\* it.
C23_ShorterOfTwoLongWins ==
    /\ \A i \in 1..Len(battle_tasks) :
          LET t == battle_tasks[i]
          IN  ( /\ Missed(t)
                /\ OverThreshold(t.model_a, t)
                /\ OverThreshold(t.model_b, t)
                /\ SumOver(t.model_a, t) # SumOver(t.model_b, t) ) =>
                 /\ t.pc = "done"
                 /\ t.winner = IF SumOver(t.model_a, t) < SumOver(t.model_b, t)
                               THEN "model_a" ELSE "model_b"
                 /\ BattleTaskKey(t) \notin DOMAIN judge_calls
                 /\ t.reply = << >>
    /\ \A ta \in {LongText, LongerText} : \A tb \in {LongText, LongerText} \ {ta} :
          /\ LengthWinner([q \in {"hey"} |-> ta], [q \in {"hey"} |-> tb], <<"hey">>)
             = IF Len(ta) < Len(tb) THEN "model_a" ELSE "model_b"
          /\ LengthWinner([q \in {"hey"} |-> tb], [q \in {"hey"} |-> ta], <<"hey">>)
             = IF Len(ta) < Len(tb) THEN "model_b" ELSE "model_a"

\* the models were listed in the other order (mb before ma), both answered
\* over the threshold, and the shorter one, passed as model_b, won without a
\* judge request
C23_Witness ==
    \E i \in 1..Len(battle_tasks) :
        /\ battle_tasks[i].model_a = "mb"
        /\ battle_tasks[i].model_b = "ma"
        /\ battle_tasks[i].pc = "done" /\ ~battle_tasks[i].cached
        /\ OverThreshold("ma", battle_tasks[i])
        /\ OverThreshold("mb", battle_tasks[i])
        /\ SumOver("ma", battle_tasks[i]) < SumOver("mb", battle_tasks[i])
        /\ battle_tasks[i].winner = "model_b"
        /\ BattleTaskKey(battle_tasks[i]) \notin DOMAIN judge_calls

VerdictOf(i) ==
    <<battle_tasks[i].model_a, battle_tasks[i].model_b, battle_tasks[i].winner,
      battle_tasks[i].category, battle_tasks[i].cached>>

\* the verdicts of this process in the order in which its battles returned
CompletionVerdicts == [k \in 1..Len(completed) |-> VerdictOf(completed[k])]

\* the verdicts of this process in the order of the battle task list
TaskOrderVerdicts == [i \in 1..Len(battle_tasks) |-> VerdictOf(i)]

\* C25 (SpecJudged), as claimed: after the fold the global and the
\* per-category rating tables are the ones the verdicts give when applied in
\* the order in which the battles completed.
C25_FoldInCompletionOrder ==
    pc = "done" =>
        /\ elo_ratings = GlobalElo(MODELS, CompletionVerdicts)
        /\ category_elos = CategoryElos(MODELS, TEST_QUESTIONS, CompletionVerdicts)

\* C25 (SpecJudged), as amended: the fold applies the verdicts in the order of
\* the battle task list, which is the order in which gather returns them,
\* whatever the order in which the battles completed.
C25_FoldInTaskOrder ==
    pc = "done" =>
        /\ Len(completed) = Len(battle_tasks)
        /\ results_battles = TaskOrderVerdicts
        /\ elo_ratings = GlobalElo(MODELS, TaskOrderVerdicts)
        /\ category_elos = CategoryElos(MODELS, TEST_QUESTIONS, TaskOrderVerdicts)

\* the battles returned in another order than the order of the task list, and
\* the ratings are not the ones the order of return would have given
C25_Witness ==
    /\ pc = "done"
    /\ Len(completed) = 3
    /\ completed # <<1, 2, 3>>
    /\ elo_ratings # GlobalElo(MODELS, CompletionVerdicts)

\* a rating of 1000 points
Thousand == initial_elo * RatingUnit

\* the verdicts [A beats B, B beats A] on the pair (ma, mb)
BalancedSeries ==
    /\ Len(results_battles) = 2
    /\ results_battles[1][1] = "ma" /\ results_battles[1][2] = "mb"
    /\ results_battles[2][1] = "ma" /\ results_battles[2][2] = "mb"
    /\ results_battles[1][3] = "model_a"
    /\ results_battles[2][3] = "model_b"

\* C26 (SpecElo), as claimed: folding [A beats B, B beats A] on ratings of 1000
\* and 1000 leaves both at exactly 1000.
C26_BalancedSeriesRoundTrip ==
    BalancedSeries => /\ elo_ratings["ma"] = Thousand
                      /\ elo_ratings["mb"] = Thousand

\* C26 (SpecElo), as amended: folding [A beats B, B beats A] on ratings of
\* 1000 and 1000 leaves A below 1000 and B above 1000, A at 998.53 and B at
\* 1001.47 to within three hundredths of a point, their sum 2000 to within two
\* hundredths: the second verdict is won by the lower rated model and moves
\* more than the first.
C26_BalancedSeriesFavoursLast ==
    BalancedSeries =>
        /\ elo_ratings["ma"] < Thousand
        /\ elo_ratings["mb"] > Thousand
        /\ elo_ratings["ma"] \in (99853 - 3)..(99853 + 3)
        /\ elo_ratings["mb"] \in (100147 - 3)..(100147 + 3)
        /\ elo_ratings["ma"] + elo_ratings["mb"] \in (2 * Thousand - 2)..(2 * Thousand + 2)

C26_Witness ==
    /\ BalancedSeries
    /\ Len(MODELS) = 2
    /\ elo_ratings["ma"] < Thousand

\* C28 (SpecElo): after one verdict is folded on ratings of 1000 each, the
\* winner is at 1016, the loser at 984 (expected score 1/2 each, K = 32), the
\* two sum to 2000, in the global table and in the table of the verdict's
\* category, and every other rating is still 1000.
C28_FirstVerdictSplits ==
    Len(results_battles) = 1 =>
        LET r      == results_battles[1]
            winner == IF r[3] = "model_a" THEN r[1] ELSE r[2]
            loser  == IF r[3] = "model_a" THEN r[2] ELSE r[1]
        IN  /\ Expected(Thousand, Thousand) = FixedOne \div 2
            /\ elo_ratings[winner] = Thousand + (K \div 2) * RatingUnit
            /\ elo_ratings[loser] = Thousand - (K \div 2) * RatingUnit
            /\ elo_ratings[winner] > Thousand
            /\ elo_ratings[loser] < Thousand
            /\ elo_ratings[winner] + elo_ratings[loser] = 2 * Thousand
            /\ category_elos[r[4]] = elo_ratings
            /\ \A m \in DOMAIN elo_ratings \ {winner, loser} : elo_ratings[m] = Thousand

\* one verdict for model_b was folded on two models
C28_Witness ==
    /\ pc = "done"
    /\ Len(MODELS) = 2
    /\ Len(results_battles) = 1
    /\ results_battles[1][3] = "model_b"
    /\ elo_ratings["mb"] > Thousand
    /\ elo_ratings["ma"] < Thousand

\* C27 (SpecScenario), as claimed: a run with two models and one category of
\* three questions generates exactly 6 responses and runs exactly 1 battle
\* task.
C27_SixResponsesOneBattle ==
    pc = "done" =>
        /\ Len(tasks) = 6
        /\ \A m \in DOMAIN results : Len(results[m].responses) = 3
        /\ Len(battle_tasks) = 1
        /\ Len(results_battles) = 1

\* C29 (SpecStartup): a process started with an empty key pool, or with a
\* --category argument that names no category of the question set, ends at
\* once: it builds no task, sends no request, sets no cache entry and leaves
\* both cache files as they were; and no other process ends that way.
C29_RefusedBeforeAnyRequest ==
    /\ [](pc \in {"no_keys", "unknown_category"} =>
            /\ tasks = << >>
            /\ battle_tasks = << >>
            /\ DOMAIN send_calls = {}
            /\ DOMAIN judge_calls = {}
            /\ set_during = [responses |-> {}, battles |-> {}]
            /\ ~response_cache.dirty
            /\ ~battle_cache.dirty)
    /\ [][ \A cfg \in StartupConfigs, names \in StartupPools, category \in StartupCategories :
              Main(cfg, names, category) =>
                 /\ (names = << >> \/ UnknownCategory(cfg, category))
                    <=> pc' \in {"no_keys", "unknown_category"}
                 /\ pc' \in {"no_keys", "unknown_category"} =>
                       /\ response_file' = response_file
                       /\ battle_file' = battle_file
                 /\ pc' = "phase1" =>
                       /\ tasks' # << >>
                       /\ \A i \in 1..Len(tasks') :
                             category \in {None, <<"">>, <<tasks'[i].category>>} ]_vars

\* a process found no key, after an earlier process had written the response
\* cache file, which is still there
C29_Witness ==
    /\ pc = "no_keys"
    /\ response_file.exists
    /\ DOMAIN response_file.entries # {}
    /\ tasks = << >>

\* the battle tasks a model takes part in, and those it wins
PlayedBy(m) ==
    {i \in 1..Len(battle_tasks) : m \in {battle_tasks[i].model_a, battle_tasks[i].model_b}}

WonBy(m) ==
    {i \in 1..Len(battle_tasks) :
        m = IF battle_tasks[i].winner = "model_a" THEN battle_tasks[i].model_a
                                                  ELSE battle_tasks[i].model_b}

RECURSIVE SumWins(_)
SumWins(ms) ==
    IF ms = {} THEN 0
    ELSE LET m == CHOOSE x \in ms : TRUE IN battle_stats[m].wins + SumWins(ms \ {m})

RECURSIVE SumLosses(_)
SumLosses(ms) ==
    IF ms = {} THEN 0
    ELSE LET m == CHOOSE x \in ms : TRUE IN battle_stats[m].losses + SumLosses(ms \ {m})

\* the rating table after the first k battle tasks, where the verdict of task
\* i changes the table once if i is in the set "counted" and not at all
\* otherwise
RECURSIVE RatingsAfter(_, _)
RatingsAfter(k, counted) ==
    IF k = 0 THEN InitialRatings(MODELS)
    ELSE IF k \in counted
    THEN EloUpdate(RatingsAfter(k - 1, counted), battle_tasks[k].model_a,
                   battle_tasks[k].model_b, battle_tasks[k].winner)
    ELSE RatingsAfter(k - 1, counted)

\* C30 (SpecCategories): after the fold every battle task has given exactly
\* one verdict; each verdict has changed the global rating table once, the
\* table of its own category once and no other category's table, and has
\* counted as one win for its winner and one loss for its loser, so that the
\* wins and the losses both add up to the number of battle tasks.
C30_EachVerdictAppliedOnce ==
    pc = "done" =>
        LET n == Len(battle_tasks)
        IN  /\ Len(results_battles) = n
            /\ \A i \in 1..n :
                  /\ battle_tasks[i].pc = "done"
                  /\ battle_tasks[i].winner \in {"model_a", "model_b"}
                  /\ results_battles[i] = VerdictOf(i)
            /\ \A m \in DOMAIN battle_stats :
                  /\ battle_stats[m].wins = Cardinality(WonBy(m))
                  /\ battle_stats[m].losses = Cardinality(PlayedBy(m) \ WonBy(m))
            /\ SumWins(DOMAIN battle_stats) = n
            /\ SumLosses(DOMAIN battle_stats) = n
            /\ elo_ratings = RatingsAfter(n, 1..n)
            /\ \A cat \in DOMAIN category_elos :
                  category_elos[cat] =
                     RatingsAfter(n, {i \in 1..n : battle_tasks[i].category = cat})

\* the fold is over with six battles in two categories, some won by the first
\* and some by the second model of the pair, and the two category tables differ
C30_Witness ==
    /\ pc = "done"
    /\ Len(battle_tasks) = 6
    /\ DOMAIN category_elos = {"flirty", "greetings"}
    /\ category_elos["flirty"] # category_elos["greetings"]
    /\ \E i, j \in 1..Len(battle_tasks) :
          battle_tasks[i].winner = "model_a" /\ battle_tasks[j].winner = "model_b"

\* the entries of a cache that a process ending now would lose: those the file
\* does not hold, with the same value, under the fingerprint h
Unpersisted(obj, file, h) ==
    {k \in DOMAIN obj.cache :
        ~(file.exists /\ file.hash = h /\ k \in DOMAIN file.entries
                      /\ file.entries[k] = obj.cache[k])}

\* C31 (Spec): between the operations of a process the count of writes since
\* the last save is below the batch size of its cache, and the entries the
\* file does not hold are no more than that count, so fewer than one batch.
C31_UnsavedBelowBatch ==
    pc \in {"phase1", "phase2", "done"} =>
        /\ response_cache.unsaved < ResponseBatch
        /\ battle_cache.unsaved < BattleBatch
        /\ Cardinality(Unpersisted(response_cache, response_file,
                                   ResponseHash(SYSTEM_PROMPT))) <= response_cache.unsaved
        /\ Cardinality(Unpersisted(battle_cache, battle_file,
                                   CombinedHash(SYSTEM_PROMPT, JUDGE_BATTLE_PROMPT)))
              <= battle_cache.unsaved

\* a periodic save has happened in each cache and a later write waits for the
\* next one: the counts are one below the batch sizes
C31_Witness ==
    /\ pc = "phase2"
    /\ response_file.exists
    /\ battle_file.exists
    /\ response_cache.unsaved = 0
    /\ battle_cache.unsaved = BattleBatch - 1
    /\ Cardinality(set_during.battles) > BattleBatch
    /\ Unpersisted(battle_cache, battle_file,
                   CombinedHash(SYSTEM_PROMPT, JUDGE_BATTLE_PROMPT)) # {}

\* a step of run_battle in which battle task i passes the gate and looks its
\* key up
BattleLooksUp(i) ==
    /\ pc = "phase2" /\ pc' = "phase2"
    /\ Len(battle_tasks') = Len(battle_tasks)
    /\ battle_tasks[i].pc \in {"new", "waiting"}
    /\ battle_tasks'[i].pc \in {"inflight", "done"}

\* what the length heuristic would say of battle task t on the responses of
\* this process
HeuristicOf(t) ==
    LengthWinner(ResMap(results[t.model_a].responses, t.category),
                 ResMap(results[t.model_b].responses, t.category), Common(t))

\* C32 (Spec): a battle that finds its key in the battle cache returns the
\* cached verdict in the same step, marked as cached: no judge request is
\* issued for it, then or later, and the cache and its file are as before.
C32_HitReturnsAtOnce ==
    [][\A i \in 1..Len(battle_tasks) :
          ( /\ BattleLooksUp(i)
            /\ BattleTaskKey(battle_tasks[i]) \in DOMAIN battle_cache.cache ) =>
              /\ battle_tasks'[i].pc = "done"
              /\ battle_tasks'[i].cached
              /\ battle_tasks'[i].winner = battle_cache.cache[BattleTaskKey(battle_tasks[i])]
              /\ judge_calls' = judge_calls
              /\ battle_cache' = battle_cache
              /\ battle_file' = battle_file
              /\ set_during' = set_during]_vars

\* a battle returned from the cache a verdict other than the one the length
\* heuristic gives on this process's responses, and no judge was asked
C32_Witness ==
    /\ pc = "phase2"
    /\ \E i \in 1..Len(battle_tasks) :
          /\ battle_tasks[i].pc = "done"
          /\ battle_tasks[i].cached
          /\ HeuristicOf(battle_tasks[i]) # ""
          /\ HeuristicOf(battle_tasks[i]) # battle_tasks[i].winner
          /\ BattleTaskKey(battle_tasks[i]) \notin DOMAIN judge_calls
          /\ set_during.battles = {}

\* the battle tasks of the unordered pair {a, b} in category c judged by j
TasksOf(a, b, c, j) ==
    {i \in 1..Len(battle_tasks) :
        /\ {battle_tasks[i].model_a, battle_tasks[i].model_b} = {a, b}
        /\ battle_tasks[i].category = c
        /\ battle_tasks[i].judge = j}

\* C33 (SpecTasks): the battle task list holds exactly one task for every
\* unordered pair of models, category of the question set and judge outside
\* the pair, holds no other task, and no two of its tasks have the same
\* battle-cache key.
C33_OneTaskPerCombination ==
    pc = "phase2" =>
        LET ids  == {MODELS[m] : m \in 1..Len(MODELS)}
            cats == {TEST_QUESTIONS[q].category : q \in 1..Len(TEST_QUESTIONS)}
        IN  /\ \A a \in ids :
                 \A b \in ids \ {a} :
                    \A c \in cats, j \in ids \ {a, b} : Cardinality(TasksOf(a, b, c, j)) = 1
            /\ \A i \in 1..Len(battle_tasks) :
                  /\ battle_tasks[i].model_a \in ids
                  /\ battle_tasks[i].model_b \in ids \ {battle_tasks[i].model_a}
                  /\ battle_tasks[i].category \in cats
                  /\ battle_tasks[i].judge
                        \in ids \ {battle_tasks[i].model_a, battle_tasks[i].model_b}
            /\ \A i \in 1..Len(battle_tasks) :
                  \A k \in 1..Len(battle_tasks) :
                     i # k => BattleTaskKey(battle_tasks[i]) # BattleTaskKey(battle_tasks[k])

\* four models and two categories: six pairs, two judges for each pair, 24
\* battle tasks
C33_Witness ==
    /\ pc = "phase2"
    /\ Len(MODELS) = 4
    /\ Len(TEST_QUESTIONS) = 3
    /\ Len(battle_tasks) = 24

\* the verdicts folded before the last one
EarlierVerdicts == SubSeq(results_battles, 1, Len(results_battles) - 1)

\* C34 (SpecElo): folding a verdict for models a and b in category c changes
\* the ratings of a and b in the global table and in the table of c, and
\* nothing else: every other model's rating in both tables, and the whole
\* table of every other category, are as the earlier verdicts left them.
C34_FoldTouchesOnlyThePair ==
    (pc = "done" /\ results_battles # << >>) =>
        LET r      == results_battles[Len(results_battles)]
            global == GlobalElo(MODELS, EarlierVerdicts)
            tables == CategoryElos(MODELS, TEST_QUESTIONS, EarlierVerdicts)
        IN  /\ \A m \in DOMAIN elo_ratings :
                  /\ m \notin {r[1], r[2]} =>
                        /\ elo_ratings[m] = global[m]
                        /\ category_elos[r[4]][m] = tables[r[4]][m]
                  /\ m \in {r[1], r[2]} =>
                        /\ elo_ratings[m] # global[m]
                        /\ category_elos[r[4]][m] # tables[r[4]][m]
            /\ DOMAIN category_elos = DOMAIN tables
            /\ \A cat \in DOMAIN category_elos \ {r[4]} : category_elos[cat] = tables[cat]

\* the second of two verdicts was folded on three models and two categories;
\* the first was for another pair in the other category, so both tables and
\* the third model's rating had moved before
C34_Witness ==
    /\ pc = "done"
    /\ Len(MODELS) = 3
    /\ Len(results_battles) = 2
    /\ results_battles[1][4] # results_battles[2][4]
    /\ {results_battles[1][1], results_battles[1][2]}
          # {results_battles[2][1], results_battles[2][2]}
    /\ \E m \in DOMAIN elo_ratings :
          /\ m \notin {results_battles[2][1], results_battles[2][2]}
          /\ elo_ratings[m] # Thousand

\* the outcomes call r has recorded so far that still stand for an attempt of
\* its own: the failures, and the success of the attempt whose body is being
\* read or was returned
StandingSuccess(r) ==
    \/ requests[r].pc = "read"
    \/ /\ requests[r].pc = "returned"
       /\ requests[r].result[1].response # Sentinel.response

\* C35 (SpecKeys), as claimed: every attempt of a call has recorded one
\* outcome on its key once it is over, a success if its reply was returned
\* and a failure otherwise, never both; and a call that recorded a success
\* makes no further attempt.
C35_OneOutcomePerAttempt ==
    pc = "keys" =>
        \A r \in 1..Len(requests) :
            /\ ~requests[r].body_failed
            /\ requests[r].failed + (IF StandingSuccess(r) THEN 1 ELSE 0)
                  + (IF requests[r].pc = "post" THEN 1 ELSE 0) = Len(requests[r].attempts)
            /\ StandingSuccess(r) => requests[r].failed = Len(requests[r].attempts) - 1

TheFile == IF instance = "response" THEN response_file ELSE battle_file

\* every call of every thread has returned
AllReturned == \A t \in 1..Len(threads) : threads[t].pc = "idle"

\* C36 (SpecThreads), as claimed: once every call has returned, every entry
\* written by a set is in the file or the cache is still marked dirty, so
\* that save_if_dirty writes it: no entry is missing from the file while the
\* dirty flag is cleared.
C36_NoEntryLeftOutClean ==
    (pc = "threads" /\ AllReturned /\ ~TheCache.dirty) =>
        \A k \in DOMAIN TheCache.cache :
            /\ TheFile.exists
            /\ TheFile.hash = TheHash
            /\ k \in DOMAIN TheFile.entries
            /\ TheFile.entries[k] = TheCache.cache[k]

\* C37 (SpecJudged): whatever the order in which the battles of a process
\* returned, its final global ratings, category ratings and win/loss counts
\* are those obtained from the verdicts of the battle tasks taken in the
\* order of the task list: they are a function of the task list and its
\* verdicts, and the order of return has no part in them.
C37_SameForEveryCompletionOrder ==
    pc = "done" =>
        LET n == Len(battle_tasks)
        IN  /\ {completed[k] : k \in 1..Len(completed)} = 1..n
            /\ elo_ratings = RatingsAfter(n, 1..n)
            /\ \A cat \in DOMAIN category_elos :
                  category_elos[cat] =
                     RatingsAfter(n, {i \in 1..n : battle_tasks[i].category = cat})
            /\ \A m \in DOMAIN battle_stats :
                  /\ battle_stats[m].wins = Cardinality(WonBy(m))
                  /\ battle_stats[m].losses = Cardinality(PlayedBy(m) \ WonBy(m))

\* the second battle returned first and the first last, with verdicts for
\* which the order of folding matters: folding in the order of return would
\* have given other ratings
C37_Witness ==
    /\ pc = "done"
    /\ completed = <<2, 3, 1>>
    /\ \E i, j \in 1..Len(battle_tasks) :
          battle_tasks[i].winner = "model_a" /\ battle_tasks[j].winner = "model_b"
    /\ GlobalElo(MODELS, CompletionVerdicts) # RatingsAfter(Len(battle_tasks), 1..Len(battle_tasks))

\* C38 (SpecLive): a started process gets to the end of its response phase
\* with every response task finished with a result, and from there to the
\* rating phase with every battle task finished with a verdict; at both points
\* every permit of the gate is back and no task waits for it.
C38_RunCompletes ==
    /\ (pc = "phase1")
          ~> ( /\ pc = "phase2"
               /\ \A i \in 1..Len(tasks) : tasks[i].pc = "done" /\ tasks[i].data # NoData
               /\ semaphore.value = GateCapacity
               /\ semaphore.waiters = << >> )
    /\ (pc = "phase2")
          ~> ( /\ pc = "done"
               /\ \A i \in 1..Len(battle_tasks) :
                     /\ battle_tasks[i].pc = "done"
                     /\ battle_tasks[i].winner \in {"model_a", "model_b"}
               /\ semaphore.value = GateCapacity
               /\ semaphore.waiters = << >>
               /\ DOMAIN elo_ratings # {} )

\* the gate is full in the battle phase, with a battle waiting for a permit
C38_Witness ==
    /\ pc = "phase2"
    /\ semaphore.value = 0
    /\ semaphore.waiters # << >>
    /\ \E i \in 1..Len(battle_tasks) : battle_tasks[i].pc = "waiting"
    /\ \E i \in 1..Len(battle_tasks) : battle_tasks[i].pc = "inflight"

====
